---- MODULE Spec2Model ----
(***************************************************************************)
(* Model of the annotator repository: the documentation insertion engine   *)
(* (annotator/ui/diff_viewer.py) and the language analyzers                 *)
(* (annotator/languages).                                                   *)
(*                                                                          *)
(* A text is a sequence of atoms.  An atom is one character that the code   *)
(* inspects (space, tab, newline, comma, parentheses, colon) or one lexeme  *)
(* that the code treats as an opaque run of non-whitespace characters.      *)
(***************************************************************************)
EXTENDS Integers, Sequences, FiniteSets, TLC

\* ------------------------------------------------------------------------
\* Bounds of the model
\* ------------------------------------------------------------------------
MaxLines == 2
MaxProps == 2

\* ------------------------------------------------------------------------
\* String primitives of Python's str, on sequences of atoms
\* ------------------------------------------------------------------------
NL == "\n"
CR == "\r"

\* the characters str.strip()/lstrip()/rstrip()/isspace() treat as whitespace
Whitespace == {" ", "\t", NL, CR}

EndsWith(s, a) == Len(s) > 0 /\ s[Len(s)] = a

RECURSIVE Lstrip(_)
Lstrip(s) ==
    IF s # <<>> /\ Head(s) \in Whitespace THEN Lstrip(Tail(s)) ELSE s

RECURSIVE Rstrip(_)
Rstrip(s) ==
    IF s # <<>> /\ s[Len(s)] \in Whitespace THEN Rstrip(SubSeq(s, 1, Len(s) - 1)) ELSE s

\* s.rstrip("\n")
RECURSIVE RstripNL(_)
RstripNL(s) ==
    IF EndsWith(s, NL) THEN RstripNL(SubSeq(s, 1, Len(s) - 1)) ELSE s

\* truth value of s.strip()
StripNonEmpty(s) == \E i \in 1..Len(s) : s[i] \notin Whitespace

\* the line boundaries of str.splitlines(): "\n", "\r" and "\r\n"
LineBreaks == {NL, CR}

\* position of the last character of the first line boundary of s, 0 when
\* there is none
FirstNL(s) ==
    IF \E i \in 1..Len(s) : s[i] \in LineBreaks
    THEN LET b == CHOOSE i \in 1..Len(s) : s[i] \in LineBreaks /\ \A j \in 1..(i - 1) : s[j] \notin LineBreaks
         IN IF s[b] = CR /\ b < Len(s) /\ s[b + 1] = NL THEN b + 1 ELSE b
    ELSE 0

\* s.splitlines(keepends=True)
RECURSIVE SplitKeep(_)
SplitKeep(s) ==
    IF s = <<>> THEN <<>>
    ELSE IF FirstNL(s) = 0 THEN <<s>>
    ELSE <<SubSeq(s, 1, FirstNL(s))>> \o SplitKeep(SubSeq(s, FirstNL(s) + 1, Len(s)))

\* a line of splitlines(keepends=True) without its line boundary
DropBreak(l) == SelectSeq(l, LAMBDA a : a \notin LineBreaks)

\* s.splitlines()
SplitLines(s) ==
    [i \in 1..Len(SplitKeep(s)) |-> DropBreak(SplitKeep(s)[i])]

\* "".join(parts)
RECURSIVE Join(_)
Join(parts) ==
    IF parts = <<>> THEN <<>> ELSE Head(parts) \o Join(Tail(parts))

\* "\n".join(parts)
RECURSIVE JoinNL(_)
JoinNL(parts) ==
    IF parts = <<>> THEN <<>>
    ELSE IF Len(parts) = 1 THEN Head(parts)
    ELSE Head(parts) \o <<NL>> \o JoinNL(Tail(parts))

\* str.lower() and str.upper() on the words of the sources; every other word
\* of the sources is in lower case and is no HTTP method name
Lower(w) ==
    CASE w \in {"Get", "GET"} -> "get"
      [] w \in {"Post", "POST"} -> "post"
      [] w \in {"Put", "PUT"} -> "put"
      [] w = "Controller" -> "controller"
      [] OTHER -> w

Upper(w) ==
    CASE w \in {"get", "Get"} -> "GET"
      [] w \in {"post", "Post"} -> "POST"
      [] w \in {"put", "Put"} -> "PUT"
      [] w = "route" -> "ROUTE"
      [] OTHER -> w

\* " " * n
Spaces(n) == [i \in 1..n |-> " "]

\* list.insert(i, x) with a 0-based index i >= 0 (an index past the end appends)
ListInsert(lst, i, x) ==
    IF i >= Len(lst) THEN Append(lst, x)
    ELSE SubSeq(lst, 1, i) \o <<x>> \o SubSeq(lst, i + 1, Len(lst))

\* ------------------------------------------------------------------------
\* _apply_proposals_to_source
\* ------------------------------------------------------------------------

\* (mutation of SortedProps: the proposals are taken in the order given)
SortedPropsNone(ps) == ps

\* sorted(proposals, key=lambda p: p.line, reverse=True): a stable sort, so
\* proposals of equal line keep the order of the input list
RECURSIVE SortedProps(_)
SortedProps(ps) ==
    IF ps = <<>> THEN <<>>
    ELSE LET rest == SortedProps(Tail(ps))
             p == Head(ps)
             k == Cardinality({i \in 1..Len(rest) : rest[i].line > p.line})
         IN SubSeq(rest, 1, k) \o <<p>> \o SubSeq(rest, k + 1, Len(rest))

\* the block that is inserted: every non-blank line of the doc prefixed
IndentDoc(doc, prefix) ==
    LET ls == SplitLines(RstripNL(doc))
    IN JoinNL([i \in 1..Len(ls) |->
                  IF StripNonEmpty(ls[i]) THEN prefix \o ls[i] ELSE ls[i]]) \o <<NL>>

\* the while loop of the python branch; body_start is a 0-based index
RECURSIVE BodyStart(_, _)
BodyStart(lines, body_start) ==
    IF body_start < Len(lines) /\ EndsWith(Rstrip(lines[body_start]), ",")
    THEN BodyStart(lines, body_start + 1)
    ELSE body_start

\* the range test of the loop body
AnchorSkipped(insert_at, n) == insert_at < 0 \/ insert_at > n

\* the number of leading whitespace characters of the anchor line
IndentOf(lines, insert_at) ==
    LET func_line == IF insert_at < Len(lines) THEN lines[insert_at + 1] ELSE <<>>
    IN Len(func_line) - Len(Lstrip(func_line))

NormDoc(doc) == IF EndsWith(doc, NL) THEN doc ELSE doc \o <<NL>>

\* (mutation of InsertIndex: the leading comment goes below the anchor line)
InsertIndexBelow(lines, prop, lang) ==
    IF lang = "python" THEN BodyStart(lines, prop.line - 1 + 1) ELSE prop.line

\* the index at which the block of prop is inserted into lines
InsertIndex(lines, prop, lang) ==
    IF lang = "python" THEN BodyStart(lines, prop.line - 1 + 1) ELSE prop.line - 1

\* the block inserted for prop
DocBlock(lines, prop, lang) ==
    LET indent_str == Spaces(IndentOf(lines, prop.line - 1))
    IN IF lang = "python"
       THEN IndentDoc(NormDoc(prop.proposed_doc), indent_str \o Spaces(4))
       ELSE IndentDoc(NormDoc(prop.proposed_doc), indent_str)

\* one iteration of the loop over sorted_props
ApplyOne(lines, prop, lang) ==
    IF AnchorSkipped(prop.line - 1, Len(lines)) THEN lines
    ELSE ListInsert(lines, InsertIndex(lines, prop, lang), DocBlock(lines, prop, lang))

RECURSIVE ApplyAll(_, _, _)
ApplyAll(lines, ps, lang) ==
    IF ps = <<>> THEN lines ELSE ApplyAll(ApplyOne(lines, Head(ps), lang), Tail(ps), lang)

\* the whole function
ApplyProposalsToSource(src, ps, lang) ==
    Join(ApplyAll(SplitKeep(src), SortedProps(ps), lang))

\* ------------------------------------------------------------------------
\* ast.parse, on the Python fragment the model's sources are written in:
\*   statement := {decorator} [async] def NAME ( [a {, a} [,]] ) : [simple]
\*              | {decorator} class NAME :
\*              | simple
\*   simple    := pass | STRING | x | x ( [arg {, arg} [,]] )
\*   decorator := @ NAME [. NAME] [( [darg {, darg}] )]      on a line of its own
\*   darg      := LITERAL | x | NAME = LITERAL | NAME = [ [elt {, elt}] ]
\*   elt       := LITERAL | x
\* with blocks by indentation (spaces), statements continued over lines inside
\* parentheses, and string literals that may span lines.
\* ------------------------------------------------------------------------
StrOne == "'''D'''"    \* a triple-quoted string literal on one line
StrOpen == "'''D"      \* the first line of a triple-quoted literal of several lines
StrClose == "E'''"     \* its last line

\* the characters of the function names of the sources
NameChars(n) ==
    CASE n = "f" -> <<"f">>
      [] n = "g" -> <<"g">>
      [] n = "__init__" -> <<"_", "_", "i", "n", "i", "t", "_", "_">>
      [] n = "__str__" -> <<"_", "_", "s", "t", "r", "_", "_">>
      [] n = "_h" -> <<"_", "h">>

PyNames == {"f", "g", "__init__", "__str__"}

\* str.startswith
StartsWith(chars, prefix) ==
    Len(chars) >= Len(prefix) /\ SubSeq(chars, 1, Len(prefix)) = prefix

\* the tokens of a physical line
NonSpace(line) == SelectSeq(line, LAMBDA t : t \notin Whitespace)

\* the column of the first token of a physical line
RECURSIVE PyIndent(_)
PyIndent(line) ==
    IF line # <<>> /\ Head(line) = " " THEN 1 + PyIndent(Tail(line)) ELSE 0

\* tokenizer state after the tokens toks: open parentheses, inside a string
RECURSIVE ScanToks(_, _, _)
ScanToks(toks, depth, instr) ==
    IF toks = <<>> THEN [depth |-> depth, instr |-> instr, err |-> FALSE]
    ELSE IF instr THEN ScanToks(Tail(toks), depth, Head(toks) # StrClose)
    ELSE IF Head(toks) = StrOpen THEN ScanToks(Tail(toks), depth, TRUE)
    ELSE IF Head(toks) = StrClose THEN [depth |-> depth, instr |-> instr, err |-> TRUE]
    ELSE IF Head(toks) = "(" THEN ScanToks(Tail(toks), depth + 1, FALSE)
    ELSE IF Head(toks) = ")" THEN
        IF depth = 0 THEN [depth |-> depth, instr |-> instr, err |-> TRUE]
        ELSE ScanToks(Tail(toks), depth - 1, FALSE)
    ELSE ScanToks(Tail(toks), depth, FALSE)

\* the logical lines of the physical lines phys[i..]: blank lines dropped, lines
\* joined while a parenthesis or a string is open
RECURSIVE Logical(_, _, _, _, _)
Logical(phys, i, cur, depth, instr) ==
    IF i > Len(phys) THEN [ok |-> depth = 0 /\ ~instr, lls |-> <<>>]
    ELSE IF depth = 0 /\ ~instr /\ ~StripNonEmpty(phys[i])
    THEN Logical(phys, i + 1, cur, depth, instr)
    ELSE LET toks == NonSpace(phys[i])
             sc == ScanToks(toks, depth, instr)
             now == IF depth > 0 \/ instr
                    THEN [cur EXCEPT !.toks = @ \o toks, !.endline = i]
                    ELSE [toks |-> toks, indent |-> PyIndent(phys[i]),
                          line |-> i, endline |-> i]
         IN IF sc.err THEN [ok |-> FALSE, lls |-> <<>>]
            ELSE IF sc.depth = 0 /\ ~sc.instr
            THEN LET rest == Logical(phys, i + 1, now, 0, FALSE)
                 IN [ok |-> rest.ok, lls |-> <<now>> \o rest.lls]
            ELSE Logical(phys, i + 1, now, sc.depth, sc.instr)

\* a string literal becomes one token, and so do adjacent string literals
\* (implicit concatenation); last tells that the token before is a literal
RECURSIVE CollapseStr(_, _, _)
CollapseStr(toks, instr, last) ==
    LET str == IF last THEN <<>> ELSE <<"STR">>
    IN IF toks = <<>> THEN <<>>
       ELSE IF instr THEN
           IF Head(toks) = StrClose THEN str \o CollapseStr(Tail(toks), FALSE, TRUE)
           ELSE CollapseStr(Tail(toks), TRUE, last)
       ELSE IF Head(toks) = StrOpen THEN CollapseStr(Tail(toks), TRUE, last)
       ELSE IF Head(toks) = StrOne THEN str \o CollapseStr(Tail(toks), FALSE, TRUE)
       ELSE <<Head(toks)>> \o CollapseStr(Tail(toks), FALSE, FALSE)

\* elem {, elem} [,] or nothing
ValidList(ts, Elems) ==
    /\ \A i \in 1..Len(ts) : IF i % 2 = 1 THEN ts[i] \in Elems ELSE ts[i] = ","

\* the kind of a simple statement, "Bad" when ts is none
SimpleKind(ts) ==
    IF ts = <<"pass">> THEN "Pass"
    ELSE IF ts = <<"STR">> THEN "Str"
    ELSE IF ts = <<"x">> THEN "Expr"
    ELSE IF Len(ts) >= 3 /\ ts[1] = "x" /\ ts[2] = "(" /\ ts[Len(ts)] = ")"
            /\ ValidList(SubSeq(ts, 3, Len(ts) - 1), {"a", "x", "STR"})
    THEN "Expr"
    ELSE "Bad"

\* a statement node that has no body
SimpleNode(kind, line, endline) ==
    [type |-> IF kind = "Pass" THEN "Pass" ELSE "Expr", name |-> "",
     lineno |-> line, end_lineno |-> endline, body |-> <<>>,
     value |-> IF kind = "Str" THEN "str" ELSE "", decorator_list |-> <<>>]

\* one logical line as a statement: [ok, header, node]; the node of a header
\* still lacks its block
ParseLine(ll) ==
    LET ts == CollapseStr(ll.toks, FALSE, FALSE)
        bad == [ok |-> FALSE, header |-> FALSE, node |-> SimpleNode("Pass", 0, 0)]
        d == IF Len(ts) >= 1 /\ ts[1] = "def" THEN 1
             ELSE IF Len(ts) >= 2 /\ ts[1] = "async" /\ ts[2] = "def" THEN 2
             ELSE 0
    IN IF d > 0 THEN
           IF Len(ts) >= d + 4 /\ ts[d + 1] \in PyNames /\ ts[d + 2] = "("
           THEN LET close == CHOOSE i \in (d + 3)..Len(ts) :
                                 ts[i] = ")" /\ \A j \in (d + 3)..(i - 1) : ts[j] # ")"
                    has_close == \E i \in (d + 3)..Len(ts) : ts[i] = ")"
                    rest == SubSeq(ts, close + 2, Len(ts))
                    node == [type |-> IF d = 2 THEN "AsyncFunctionDef" ELSE "FunctionDef",
                             name |-> ts[d + 1], lineno |-> ll.line,
                             end_lineno |-> ll.endline, body |-> <<>>, value |-> "",
                             decorator_list |-> <<>>]
                IN IF has_close /\ Len(ts) > close /\ ts[close + 1] = ":"
                      /\ ValidList(SubSeq(ts, d + 3, close - 1), {"a"})
                   THEN IF rest = <<>> THEN [ok |-> TRUE, header |-> TRUE, node |-> node]
                        ELSE IF SimpleKind(rest) # "Bad"
                        THEN [ok |-> TRUE, header |-> FALSE,
                              node |-> [node EXCEPT !.body =
                                  <<SimpleNode(SimpleKind(rest), ll.endline, ll.endline)>>]]
                        ELSE bad
                   ELSE bad
           ELSE bad
       ELSE IF Len(ts) = 3 /\ ts[1] = "class" /\ ts[2] = "C" /\ ts[3] = ":"
       THEN [ok |-> TRUE, header |-> TRUE,
             node |-> [type |-> "ClassDef", name |-> "C", lineno |-> ll.line,
                       end_lineno |-> ll.endline, body |-> <<>>, value |-> "",
                       decorator_list |-> <<>>]]
       ELSE IF SimpleKind(ts) # "Bad"
       THEN [ok |-> TRUE, header |-> FALSE,
             node |-> SimpleNode(SimpleKind(ts), ll.line, ll.endline)]
       ELSE bad

\* the one-line string literals of decorator arguments, and their values
PyStrLits == {"'/x'", "'/y'", "'post'", "'put'"}

StrValue(lit) ==
    CASE lit = "'/x'" -> "/x"
      [] lit = "'/y'" -> "/y"
      [] lit = "'post'" -> "post"
      [] lit = "'put'" -> "put"

\* the identifiers of decorators
DecoratorNames == {"app", "db", "get", "post", "route", "methods", "x"}

\* the items of a comma-separated list, commas inside brackets not counted;
\* cur is the item being read and depth the number of open brackets
RECURSIVE SplitCommas(_, _, _)
SplitCommas(ts, cur, depth) ==
    IF ts = <<>> THEN (IF cur = <<>> THEN <<>> ELSE <<cur>>)
    ELSE IF Head(ts) = "," /\ depth = 0 THEN <<cur>> \o SplitCommas(Tail(ts), <<>>, 0)
    ELSE SplitCommas(Tail(ts), Append(cur, Head(ts)),
                     IF Head(ts) = "[" THEN depth + 1
                     ELSE IF Head(ts) = "]" THEN depth - 1 ELSE depth)

\* an expression that is a literal or a name: [ok, const, value]
Atom(ts) ==
    IF Len(ts) = 1 /\ ts[1] \in PyStrLits
    THEN [ok |-> TRUE, const |-> TRUE, value |-> StrValue(ts[1])]
    ELSE IF Len(ts) = 1 /\ ts[1] \in DecoratorNames
    THEN [ok |-> TRUE, const |-> FALSE, value |-> ts[1]]
    ELSE [ok |-> FALSE, const |-> FALSE, value |-> ""]

\* one argument of a call: [ok, keyword, arg, is_list, const, value, elts]
CallArg(ts) ==
    LET bad == [ok |-> FALSE, keyword |-> FALSE, arg |-> "", is_list |-> FALSE,
                const |-> FALSE, value |-> "", elts |-> <<>>]
        val == IF Len(ts) >= 2 /\ ts[2] = "=" THEN SubSeq(ts, 3, Len(ts)) ELSE ts
        kw == Len(ts) >= 2 /\ ts[2] = "="
        elts == SplitCommas(SubSeq(val, 2, Len(val) - 1), <<>>, 0)
    IN IF kw /\ ts[1] \notin DecoratorNames THEN bad
       ELSE IF Len(val) >= 2 /\ val[1] = "[" /\ val[Len(val)] = "]"
       THEN IF \A i \in 1..Len(elts) : Atom(elts[i]).ok
            THEN [ok |-> TRUE, keyword |-> kw, arg |-> IF kw THEN ts[1] ELSE "",
                  is_list |-> TRUE, const |-> FALSE, value |-> "",
                  elts |-> [i \in 1..Len(elts) |-> Atom(elts[i])]]
            ELSE bad
       ELSE IF Atom(val).ok
       THEN [ok |-> TRUE, keyword |-> kw, arg |-> IF kw THEN ts[1] ELSE "",
             is_list |-> FALSE, const |-> Atom(val).const, value |-> Atom(val).value,
             elts |-> <<>>]
       ELSE bad

\* the expression of a decorator line "@ ..." as an ast node:
\* [ok, is_call, is_attribute, receiver, attr, args, keywords]; is_attribute
\* tells that the decorator, or the function it calls, is receiver.attr
ParseDecorator(toks) ==
    LET bad == [ok |-> FALSE, is_call |-> FALSE, is_attribute |-> FALSE, receiver |-> "",
                attr |-> "", args |-> <<>>, keywords |-> <<>>]
        is_attribute == Len(toks) >= 4 /\ toks[3] = "." /\ toks[4] \in DecoratorNames
        n == IF is_attribute THEN 4 ELSE 2
        is_call == Len(toks) > n
        items == SplitCommas(SubSeq(toks, n + 2, Len(toks) - 1), <<>>, 0)
        cargs == [i \in 1..Len(items) |-> CallArg(items[i])]
        positional == SelectSeq(cargs, LAMBDA a : ~a.keyword)
        keywords == SelectSeq(cargs, LAMBDA a : a.keyword)
    IN IF Len(toks) < 2 \/ toks[1] # "@" \/ toks[2] \notin DecoratorNames THEN bad
       ELSE IF ~is_call
       THEN [bad EXCEPT !.ok = TRUE, !.is_attribute = is_attribute, !.receiver = toks[2],
                        !.attr = IF is_attribute THEN toks[4] ELSE ""]
       ELSE IF /\ toks[n + 1] = "(" /\ toks[Len(toks)] = ")"
               /\ \A i \in 1..Len(cargs) : cargs[i].ok
               \* no positional argument after a keyword argument, no keyword twice
               /\ \A i, j \in 1..Len(cargs) :
                      i < j => /\ ~(cargs[i].keyword /\ ~cargs[j].keyword)
                               /\ ~(cargs[i].keyword /\ cargs[j].keyword
                                      /\ cargs[i].arg = cargs[j].arg)
       THEN [ok |-> TRUE, is_call |-> TRUE, is_attribute |-> is_attribute,
             receiver |-> toks[2], attr |-> IF is_attribute THEN toks[4] ELSE "",
             args |-> positional, keywords |-> keywords]
       ELSE bad

\* the first logical line from i on that is no decorator line
RECURSIVE DecoratorsEnd(_, _)
DecoratorsEnd(lls, i) ==
    IF i <= Len(lls) /\ Head(lls[i].toks) = "@" THEN DecoratorsEnd(lls, i + 1) ELSE i

\* the statements of one block: the logical lines from i on that are indented
\* by exactly k columns; [ok, nodes, next].  The decorator lines before a
\* definition belong to its statement; the definition's lineno is the line of
\* its def or class keyword.
RECURSIVE ParseStmts(_, _, _)
ParseStmts(lls, i, k) ==
    LET fail == [ok |-> FALSE, nodes |-> <<>>, next |-> i]
    IN IF i > Len(lls) \/ lls[i].indent < k THEN [ok |-> TRUE, nodes |-> <<>>, next |-> i]
       ELSE IF lls[i].indent > k THEN fail
       ELSE LET d == DecoratorsEnd(lls, i)
                decos == [j \in 1..(d - i) |-> ParseDecorator(lls[i + j - 1].toks)]
                st == IF d > Len(lls) THEN [ok |-> FALSE] ELSE ParseLine(lls[d])
                decorated(node) == [node EXCEPT !.decorator_list = decos]
            IN IF ~st.ok THEN fail
               ELSE IF d > i /\ \/ st.node.type \notin {"FunctionDef", "AsyncFunctionDef",
                                                        "ClassDef"}
                                \/ \E j \in i..d : lls[j].indent # k
                                \/ \E j \in 1..(d - i) : ~decos[j].ok
               THEN fail
               ELSE IF st.header THEN
                   IF d + 1 > Len(lls) \/ lls[d + 1].indent <= k THEN fail
                   ELSE LET blk == ParseStmts(lls, d + 1, lls[d + 1].indent)
                            rest == ParseStmts(lls, blk.next, k)
                            node == [decorated(st.node) EXCEPT
                                        !.body = blk.nodes,
                                        !.end_lineno = blk.nodes[Len(blk.nodes)].end_lineno]
                        IN IF ~blk.ok THEN fail
                           ELSE [ok |-> rest.ok, nodes |-> <<node>> \o rest.nodes,
                                 next |-> rest.next]
               ELSE LET rest == ParseStmts(lls, d + 1, k)
                    IN [ok |-> rest.ok, nodes |-> <<decorated(st.node)>> \o rest.nodes,
                        next |-> rest.next]

\* ast.parse(content): [ok, tree]; with ok = FALSE the call raises SyntaxError
AstParse(content) ==
    LET lg == Logical(SplitLines(content), 1, <<>>, 0, FALSE)
        st == ParseStmts(lg.lls, 1, 0)
        module(body) == [type |-> "Module", name |-> "", lineno |-> 0, end_lineno |-> 0,
                         body |-> body, value |-> "", decorator_list |-> <<>>]
    IN IF lg.ok /\ st.ok /\ st.next > Len(lg.lls)
       THEN [ok |-> TRUE, tree |-> module(st.nodes)]
       ELSE [ok |-> FALSE, tree |-> module(<<>>)]

\* ------------------------------------------------------------------------
\* PythonAnalyzer.analyze
\* ------------------------------------------------------------------------
ContextCap == 30

\* _has_docstring
HasDocstring(node) ==
    /\ node.body # <<>>
    /\ node.body[1].type = "Expr"
    /\ node.body[1].value = "str"

\* (mutation of IsFunctionNode: async definitions are not recognised)
IsFunctionNodeSyncOnly(node) == node.type = "FunctionDef"

\* isinstance(node, (ast.FunctionDef, ast.AsyncFunctionDef))
IsFunctionNode(node) == node.type \in {"FunctionDef", "AsyncFunctionDef"}

\* node.name.startswith("__") and node.name != "__init__"
SkippedName(name) == StartsWith(NameChars(name), <<"_", "_">>) /\ name # "__init__"

Min(a, b) == IF a <= b THEN a ELSE b

\* the method names _decorator_to_endpoint accepts
PyHttpMethods == {"GET", "POST", "PUT", "DELETE", "PATCH", "HEAD", "OPTIONS"}

\* the first element of elts that is an ast.Constant, 0 when there is none
FirstConstant(elts) ==
    IF \E i \in 1..Len(elts) : elts[i].const
    THEN CHOOSE i \in 1..Len(elts) : elts[i].const /\ \A j \in 1..(i - 1) : ~elts[j].const
    ELSE 0

\* the first keyword "methods" whose value is a list that holds a constant, 0
\* when there is none
MethodsKeyword(keywords) ==
    LET hit(i) == /\ keywords[i].arg = "methods" /\ keywords[i].is_list
                  /\ FirstConstant(keywords[i].elts) # 0
    IN IF \E i \in 1..Len(keywords) : hit(i)
       THEN CHOOSE i \in 1..Len(keywords) : hit(i) /\ \A j \in 1..(i - 1) : ~hit(j)
       ELSE 0

\* _decorator_to_endpoint: [some, method, path], some = FALSE for None.  The
\* function never looks at func.value, the receiver; the expressions
\* _FASTAPI_DECORATOR_RE and _FLASK_ROUTE_RE that name receivers are used nowhere.
DecoratorToEndpoint(decorator) ==
    LET none == [some |-> FALSE, method |-> "None", path |-> "None"]
        method_name == Upper(decorator.attr)
        has_path == decorator.args # <<>> /\ decorator.args[1].const
                        /\ ~decorator.args[1].is_list
        k == MethodsKeyword(decorator.keywords)
    IN IF ~(decorator.is_call /\ decorator.is_attribute) THEN none
       ELSE IF method_name \in PyHttpMethods /\ has_path
       THEN [some |-> TRUE, method |-> method_name, path |-> decorator.args[1].value]
       ELSE IF method_name = "ROUTE" /\ has_path
       THEN IF k # 0
            THEN [some |-> TRUE,
                  method |-> Upper(decorator.keywords[k].elts[
                                       FirstConstant(decorator.keywords[k].elts)].value),
                  path |-> decorator.args[1].value]
            ELSE [some |-> TRUE, method |-> "GET", path |-> decorator.args[1].value]
       ELSE none

\* lines 102-108: the first decorator of the list that gives an endpoint, 0
\* when none does
FirstEndpoint(decorator_list) ==
    IF \E i \in 1..Len(decorator_list) : DecoratorToEndpoint(decorator_list[i]).some
    THEN CHOOSE i \in 1..Len(decorator_list) :
             /\ DecoratorToEndpoint(decorator_list[i]).some
             /\ \A j \in 1..(i - 1) : ~DecoratorToEndpoint(decorator_list[j]).some
    ELSE 0

\* the SymbolInfo built for a definition without docstring
PySymbol(node, lines) ==
    LET e == FirstEndpoint(node.decorator_list)
        result == DecoratorToEndpoint(node.decorator_list[e])
    IN
    [name |-> node.name, line |-> node.lineno,
     type |-> IF e # 0 THEN "endpoint" ELSE "function", has_docs |-> FALSE,
     endpoint_method |-> IF e # 0 THEN result.method ELSE "None",
     endpoint_path |-> IF e # 0 THEN result.path ELSE "None",
     source_lines |-> SubSeq(lines, node.lineno,
                             Min(node.end_lineno, node.lineno - 1 + ContextCap))]

\* one turn of "for node in ast.walk(tree)": the node is taken from the left of
\* the queue and its children are appended to the right
WalkSymbols(node, symbols, lines) ==
    IF IsFunctionNode(node) /\ ~SkippedName(node.name) /\ ~HasDocstring(node)
    THEN Append(symbols, PySymbol(node, lines))
    ELSE symbols

RECURSIVE WalkAll(_, _, _)
WalkAll(todo, symbols, lines) ==
    IF todo = <<>> THEN symbols
    ELSE WalkAll(Tail(todo) \o Head(todo).body, WalkSymbols(Head(todo), symbols, lines), lines)

\* (mutation of ExceptClause: the handler catches another exception type)
ExceptClauseOther(exc) == exc = "ValueError"

\* "except SyntaxError": the exception types the handler catches
ExceptClause(exc) == exc = "SyntaxError"

\* the whole method: [raised, symbols]
PyAnalyze(content) ==
    IF ~AstParse(content).ok
    THEN [raised |-> ~ExceptClause("SyntaxError"), symbols |-> <<>>]
    ELSE [raised |-> FALSE,
          symbols |-> WalkAll(<<AstParse(content).tree>>, <<>>, SplitLines(content))]


\* ------------------------------------------------------------------------
\* The regular expressions of typescript_analyzer.py, on sequences of atoms.
\* In a TypeScript text an atom is a whitespace character, a punctuation
\* lexeme ("(", ")", "{", "}", "=", "=>", ".", ",", "@", "/", a quote), a comment
\* lexeme ("/**", "*/", "*") or a maximal run of word characters (\w+).
\* A match is a record [ok, end, g1, g2]: end is the position of the last
\* atom of the match, g1 the word captured by the first group, g2 the atoms
\* captured by the path group.
\* ------------------------------------------------------------------------
JsdocWindow == 20
TsContextCap == 30

\* the runs of word characters of the fragment
TsWords ==
    {"export", "async", "function", "const", "f", "g", "_h", "h", "x", "D",
     "app", "myapp", "db", "this", "get", "post", "Get", "Post", "Controller", "api"}

\* the three quote characters; the atom "BACKTICK" stands for the backtick
Quotes == {"'", "\"", "BACKTICK"}

HttpVerbs == {"get", "post", "put", "delete", "patch", "head", "options"}

\* the atom at position i, "" past the ends of the text
At(s, i) == IF i >= 1 /\ i <= Len(s) THEN s[i] ELSE ""

\* \s* from position i: the position of the first atom that is no whitespace
RECURSIVE SkipWs(_, _)
SkipWs(s, i) == IF At(s, i) \in Whitespace THEN SkipWs(s, i + 1) ELSE i

\* (?:w\s+)? from position i: the position after the group
OptWord(s, i, w) ==
    IF At(s, i) = w /\ At(s, i + 1) \in Whitespace THEN SkipWs(s, i + 1) ELSE i

NoMatch == [ok |-> FALSE, end |-> 0, g1 |-> "", g2 |-> <<>>]

\* ^(?:export\s+)?(?:async\s+)?function\s+(\w+)\s*\(
FuncPattern1(s, i) ==
    LET a == OptWord(s, OptWord(s, i, "export"), "async")
        n == SkipWs(s, a + 1)
        p == SkipWs(s, n + 1)
    IN IF /\ At(s, a) = "function" /\ At(s, a + 1) \in Whitespace
          /\ At(s, n) \in TsWords /\ At(s, p) = "("
       THEN [ok |-> TRUE, end |-> p, g1 |-> At(s, n), g2 |-> <<>>]
       ELSE NoMatch

\* ^(?:export\s+)?const\s+(\w+)\s*=\s*(?:async\s+)?\(
FuncPattern2(s, i) ==
    LET c == OptWord(s, i, "export")
        n == SkipWs(s, c + 1)
        e == SkipWs(s, n + 1)
        p == OptWord(s, SkipWs(s, e + 1), "async")
    IN IF /\ At(s, c) = "const" /\ At(s, c + 1) \in Whitespace
          /\ At(s, n) \in TsWords /\ At(s, e) = "=" /\ At(s, p) = "("
       THEN [ok |-> TRUE, end |-> p, g1 |-> At(s, n), g2 |-> <<>>]
       ELSE NoMatch

\* ^(?:export\s+)?const\s+(\w+)\s*=\s*async\s+function\s*\(
FuncPattern3(s, i) ==
    LET c == OptWord(s, i, "export")
        n == SkipWs(s, c + 1)
        e == SkipWs(s, n + 1)
        a == SkipWs(s, e + 1)
        f == SkipWs(s, a + 1)
        p == SkipWs(s, f + 1)
    IN IF /\ At(s, c) = "const" /\ At(s, c + 1) \in Whitespace
          /\ At(s, n) \in TsWords /\ At(s, e) = "="
          /\ At(s, a) = "async" /\ At(s, a + 1) \in Whitespace
          /\ At(s, f) = "function" /\ At(s, p) = "("
       THEN [ok |-> TRUE, end |-> p, g1 |-> At(s, n), g2 |-> <<>>]
       ELSE NoMatch

\* [^Q ]* from position i, Q standing for the three quote characters: the
\* position of the first quote or space, or of the end of the text
RECURSIVE PathEnd(_, _)
PathEnd(s, i) ==
    IF i > Len(s) \/ s[i] \in Quotes \cup {" "} THEN i ELSE PathEnd(s, i + 1)

\* the words that end in app, router or server, whatever the case
EndsInReceiver(w) == Lower(w) \in {"app", "router", "server", "myapp"}

\* (?:app|router|server)\.(get|post|put|delete|patch|head|options)\s*\(\s*
\* [Q]([^Q ]+)[Q]  with IGNORECASE.  The expression is not anchored on
\* the left, so the receiver is any word that ends in app, router or server.
ExpressRe(s, i) ==
    LET p == SkipWs(s, i + 3)
        q == SkipWs(s, p + 1)
        r == PathEnd(s, q + 1)
    IN IF /\ EndsInReceiver(At(s, i))
          /\ At(s, i + 1) = "."
          /\ Lower(At(s, i + 2)) \in HttpVerbs
          /\ At(s, p) = "(" /\ At(s, q) \in Quotes
          /\ r > q + 1 /\ At(s, r) \in Quotes
       THEN [ok |-> TRUE, end |-> r, g1 |-> At(s, i + 2), g2 |-> SubSeq(s, q + 1, r - 1)]
       ELSE NoMatch

\* \s*\(\s*(?:[Q]([^Q ]*)[Q])?\s*\)  from position i, the tail of the
\* two decorator expressions; g1 is the word before it
DecoratorArgs(s, i, word) ==
    LET p == SkipWs(s, i)
        q == SkipWs(s, p + 1)
        r == PathEnd(s, q + 1)
        quoted == At(s, q) \in Quotes /\ At(s, r) \in Quotes
        c == IF quoted THEN SkipWs(s, r + 1) ELSE q
    IN IF At(s, p) = "(" /\ At(s, c) = ")"
       THEN [ok |-> TRUE, end |-> c, g1 |-> word,
             g2 |-> IF quoted THEN SubSeq(s, q + 1, r - 1) ELSE <<>>]
       ELSE NoMatch

\* @(Get|Post|Put|Delete|Patch|Head|Options)\s*\(...\)  with IGNORECASE
NestjsEndpointRe(s, i) ==
    IF At(s, i) = "@" /\ Lower(At(s, i + 1)) \in HttpVerbs
    THEN DecoratorArgs(s, i + 2, At(s, i + 1))
    ELSE NoMatch

\* @Controller\s*\(...\)  with IGNORECASE
NestjsControllerRe(s, i) ==
    IF At(s, i) = "@" /\ Lower(At(s, i + 1)) = "controller"
    THEN DecoratorArgs(s, i + 2, At(s, i + 1))
    ELSE NoMatch

\* the expression k at position i; the function patterns are anchored by ^
\* under MULTILINE, that is at the start of a line
MatchAt(k, s, i) ==
    LET line_start == i = 1 \/ s[i - 1] = NL
    IN CASE k = "func1" -> IF line_start THEN FuncPattern1(s, i) ELSE NoMatch
         [] k = "func2" -> IF line_start THEN FuncPattern2(s, i) ELSE NoMatch
         [] k = "func3" -> IF line_start THEN FuncPattern3(s, i) ELSE NoMatch
         [] k = "express" -> ExpressRe(s, i)
         [] k = "endpoint" -> NestjsEndpointRe(s, i)
         [] k = "controller" -> NestjsControllerRe(s, i)

\* (mutation of LineNo: the line is counted from 1)
LineNoFromOne(s, i) == Cardinality({j \in 1..(i - 1) : s[j] = NL}) + 1

\* content[:m.start()].count("\n")
LineNo(s, i) == Cardinality({j \in 1..(i - 1) : s[j] = NL})

\* pattern.finditer(content): the matches from left to right, none
\* overlapping another, each with the line it starts on
RECURSIVE FindIter(_, _, _)
FindIter(k, s, i) ==
    IF i > Len(s) THEN <<>>
    ELSE LET m == MatchAt(k, s, i)
         IN IF m.ok
            THEN <<[line_no |-> LineNo(s, i), g1 |-> m.g1, g2 |-> m.g2]>>
                     \o FindIter(k, s, m.end + 1)
            ELSE FindIter(k, s, i + 1)

\* (mutation of JsdocRe: the closing lexeme may stand anywhere in the block)
JsdocReAnywhere(block) ==
    \E p, q \in 1..Len(block) : p < q /\ block[p] = "/**" /\ block[q] = "*/"

\* _JSDOC_RE.search(block):  /\*\*[\s\S]*?\*/\s*$  The closing lexeme has to be
\* followed by whitespace only up to the end of the block, so it is the last
\* lexeme of the block, and the opening lexeme is anywhere before it.
JsdocRe(block) ==
    LET t == Rstrip(block)
    IN /\ EndsWith(t, "*/")
       /\ \E p \in 1..(Len(t) - 1) : t[p] = "/**"

Max(a, b) == IF a >= b THEN a ELSE b

\* _has_jsdoc_before(lines, func_line_idx), func_line_idx counted from 0
HasJsdocBefore(lines, func_line_idx) ==
    IF func_line_idx = 0 THEN FALSE
    ELSE LET search_start == Max(0, func_line_idx - JsdocWindow)
         IN JsdocRe(JoinNL(SubSeq(lines, search_start + 1, func_line_idx)))

\* ------------------------------------------------------------------------
\* TypeScriptAnalyzer.analyze
\* ------------------------------------------------------------------------

\* s.strip("/") and s.rstrip("/") on a path
RECURSIVE RstripSlash(_)
RstripSlash(s) ==
    IF EndsWith(s, "/") THEN RstripSlash(SubSeq(s, 1, Len(s) - 1)) ELSE s

RECURSIVE LstripSlash(_)
LstripSlash(s) ==
    IF s # <<>> /\ Head(s) = "/" THEN LstripSlash(Tail(s)) ELSE s

StripSlash(s) == LstripSlash(RstripSlash(s))

\* lines 75-76: the base path of the first @Controller decorator, "" when
\* there is none or when it has no argument
ControllerBase(content) ==
    LET ms == FindIter("controller", content, 1)
    IN IF ms = <<>> THEN <<>> ELSE ms[1].g2

\* lines 84-86
FullPath(controller_base, path_part) ==
    LET full_path == RstripSlash(<<"/">> \o StripSlash(controller_base)
                                    \o <<"/">> \o StripSlash(path_part))
    IN IF full_path = <<>> \/ Head(full_path) # "/" THEN <<"/">> \o full_path
       ELSE full_path

\* (mutation of DictSet: a key that is present keeps its value)
DictSetOnce(d, key, value) ==
    IF \E i \in 1..Len(d) : d[i].key = key THEN d
    ELSE Append(d, [key |-> key, value |-> value])

\* d[key] = value on a dict kept as the sequence of its items in insertion
\* order: a key that is present keeps its place
DictSet(d, key, value) ==
    IF \E i \in 1..Len(d) : d[i].key = key
    THEN [i \in 1..Len(d) |-> IF d[i].key = key THEN [key |-> key, value |-> value]
                                ELSE d[i]]
    ELSE Append(d, [key |-> key, value |-> value])

\* lines 79-89: the decorator of a line marks the five lines below it
RECURSIVE NestjsEndpoints(_, _, _)
NestjsEndpoints(ms, controller_base, d) ==
    IF ms = <<>> THEN d
    ELSE LET m == Head(ms)
             v == [method |-> Upper(m.g1), path |-> FullPath(controller_base, m.g2)]
             marked == DictSet(DictSet(DictSet(DictSet(DictSet(d,
                           m.line_no + 1, v), m.line_no + 2, v), m.line_no + 3, v),
                           m.line_no + 4, v), m.line_no + 5, v)
         IN NestjsEndpoints(Tail(ms), controller_base, marked)

\* lines 92-95
RECURSIVE ExpressEndpoints(_, _)
ExpressEndpoints(ms, d) ==
    IF ms = <<>> THEN d
    ELSE ExpressEndpoints(Tail(ms),
             DictSet(d, Head(ms).line_no, [method |-> Upper(Head(ms).g1),
                                           path |-> Head(ms).g2]))

\* the first item of d, in insertion order, whose key is in keys; 0 when
\* there is none
FirstItem(d, keys) ==
    IF \E i \in 1..Len(d) : d[i].key \in keys
    THEN CHOOSE i \in 1..Len(d) :
             d[i].key \in keys /\ \A j \in 1..(i - 1) : d[j].key \notin keys
    ELSE 0

\* the keys of the dict d
Keys(d) == {d[i].key : i \in 1..Len(d)}

Abs(n) == IF n < 0 THEN -n ELSE n

\* (mutation of TsSymbol: the path is not stored)
TsSymbolNoPath(name, line_no, type, method, path, lines) ==
    [name |-> name, line |-> line_no + 1, type |-> type, has_docs |-> FALSE,
     endpoint_method |-> method, endpoint_path |-> <<>>,
     source_lines |-> SubSeq(lines, line_no + 1, Min(Len(lines), line_no + TsContextCap))]

\* lines 134-147 and 154-167: the SymbolInfo of a symbol without JSDoc; an
\* endpoint_method of "None" and an endpoint_path of <<>> stand for None (a
\* path that is set is never empty)
TsSymbol(name, line_no, type, method, path, lines) ==
    [name |-> name, line |-> line_no + 1, type |-> type, has_docs |-> FALSE,
     endpoint_method |-> method, endpoint_path |-> path,
     source_lines |-> SubSeq(lines, line_no + 1, Min(Len(lines), line_no + TsContextCap))]

\* lines 100-147: the body of the loop over the matches of the function
\* patterns; st is [seen_lines, symbols]
FuncMatch(st, m, lines, express_endpoints, nestjs_endpoints) ==
    IF m.line_no \in st.seen_lines THEN st
    ELSE IF StartsWith(NameChars(m.g1), <<"_">>)
    THEN [st EXCEPT !.seen_lines = @ \cup {m.line_no}]
    ELSE LET has_docs == HasJsdocBefore(lines, m.line_no)
             e == FirstItem(express_endpoints,
                            {ep_line \in Keys(express_endpoints) : Abs(ep_line - m.line_no) <= 1})
             n == FirstItem(nestjs_endpoints,
                            {ep_line \in Keys(nestjs_endpoints) : m.line_no = ep_line})
             sym == IF e # 0
                    THEN TsSymbol(<<m.g1>>, m.line_no, "endpoint", express_endpoints[e].value.method,
                                  express_endpoints[e].value.path, lines)
                    ELSE IF n # 0
                    THEN TsSymbol(<<m.g1>>, m.line_no, "endpoint", nestjs_endpoints[n].value.method,
                                  nestjs_endpoints[n].value.path, lines)
                    ELSE TsSymbol(<<m.g1>>, m.line_no, "function", "None", <<>>, lines)
         IN [seen_lines |-> st.seen_lines \cup {m.line_no},
             symbols |-> IF has_docs THEN st.symbols ELSE Append(st.symbols, sym)]

RECURSIVE FuncMatches(_, _, _, _, _)
FuncMatches(st, ms, lines, express_endpoints, nestjs_endpoints) ==
    IF ms = <<>> THEN st
    ELSE FuncMatches(FuncMatch(st, Head(ms), lines, express_endpoints, nestjs_endpoints),
                     Tail(ms), lines, express_endpoints, nestjs_endpoints)

\* ep_path.replace("/", "_").strip("_")
RECURSIVE StripUnderscore(_)
StripUnderscore(s) ==
    IF s # <<>> /\ Head(s) = "_" THEN StripUnderscore(Tail(s))
    ELSE IF EndsWith(s, "_") THEN StripUnderscore(SubSeq(s, 1, Len(s) - 1))
    ELSE s

\* line 159: the name of a standalone endpoint, as the sequence of its pieces
EndpointName(ep_method, ep_path) ==
    <<Lower(ep_method), "_">>
        \o StripUnderscore([i \in 1..Len(ep_path) |->
                               IF ep_path[i] = "/" THEN "_" ELSE ep_path[i]])

\* lines 150-167: the body of the loop over the Express endpoints
StandaloneEndpoint(st, item, lines) ==
    IF item.key \in st.seen_lines THEN st
    ELSE [seen_lines |-> st.seen_lines \cup {item.key},
          symbols |-> IF HasJsdocBefore(lines, item.key) THEN st.symbols
                      ELSE Append(st.symbols,
                               TsSymbol(EndpointName(item.value.method, item.value.path),
                                        item.key, "endpoint", item.value.method,
                                        item.value.path, lines))]

RECURSIVE StandaloneEndpoints(_, _, _)
StandaloneEndpoints(st, items, lines) ==
    IF items = <<>> THEN st
    ELSE StandaloneEndpoints(StandaloneEndpoint(st, Head(items), lines), Tail(items), lines)

\* (mutation of SortByLine: the list is left in the order of appending)
SortByLineNone(symbols) == symbols

\* symbols.sort(key=lambda s: s.line): a stable sort
RECURSIVE SortByLine(_)
SortByLine(symbols) ==
    IF symbols = <<>> THEN <<>>
    ELSE LET rest == SortByLine(Tail(symbols))
             s == Head(symbols)
             k == Cardinality({i \in 1..Len(rest) : rest[i].line < s.line})
         IN SubSeq(rest, 1, k) \o <<s>> \o SubSeq(rest, k + 1, Len(rest))

\* the whole method
TsAnalyze(content) ==
    LET lines == SplitLines(content)
        controller_base == ControllerBase(content)
        nestjs_endpoints == NestjsEndpoints(FindIter("endpoint", content, 1),
                                            controller_base, <<>>)
        express_endpoints == ExpressEndpoints(FindIter("express", content, 1), <<>>)
        funcs == FuncMatches([seen_lines |-> {}, symbols |-> <<>>],
                             FindIter("func1", content, 1) \o FindIter("func2", content, 1)
                                 \o FindIter("func3", content, 1),
                             lines, express_endpoints, nestjs_endpoints)
    IN SortByLine(StandaloneEndpoints(funcs, express_endpoints, lines).symbols)
\* ------------------------------------------------------------------------
\* Inputs of the insertion engine
\* ------------------------------------------------------------------------
Languages == {"python", "typescript"}

\* source lines, without their line terminator: a plain line, an indented line
\* that ends with a separator, a tab-indented line, a line that opens a parenthesis
LineBodies ==
    { <<"x">>, <<" ", "x", ",">>, <<"\t", "x">>, <<"x", "(">> }

\* doc texts: single line without newline / several lines with a blank and a
\* whitespace-only line and one newline / lines that end in "\r\n", one of
\* them with a separator, and several trailing newlines
Docs ==
    { <<"D">>,
      <<"D", NL, NL, " ", NL, "E", NL>>,
      <<"D", ",", CR, NL, "E", CR, NL, CR, NL>> }

RECURSIVE SeqsUpTo(_, _)
SeqsUpTo(S, n) ==
    IF n = 0 THEN {<<>>}
    ELSE LET shorter == SeqsUpTo(S, n - 1)
         IN shorter \cup {Append(s, x) : s \in {t \in shorter : Len(t) = n - 1}, x \in S}

\* a source is up to MaxLines lines, the last one with or without its newline
Sources ==
    LET bodies == SeqsUpTo(LineBodies, MaxLines)
        full(b) == Join([i \in 1..Len(b) |-> b[i] \o <<NL>>])
    IN {full(b) : b \in bodies}
       \cup {SubSeq(full(b), 1, Len(full(b)) - 1) : b \in {c \in bodies : c # <<>> /\ c[Len(c)] # <<>>}}

\* anchors from 0 (index -1) to one past the line after the last line
Proposals == [line : 0..(MaxLines + 1), proposed_doc : Docs]

ProposalLists == SeqsUpTo(Proposals, MaxProps)


\* n copies of the line l
Repeat(l, n) == Join([i \in 1..n |-> l])

\* ------------------------------------------------------------------------
\* Inputs of the Python analyzer
\* ------------------------------------------------------------------------
MaxPyLines == 3

\* statement lines: a header, two one-line definitions (the constructor and
\* another dunder method), a signature continued over two lines, a class
\* header, a simple statement, a string literal
PyLineBodies ==
    { <<"def", " ", "f", "(", ")", ":">>,
      <<"def", " ", "__init__", "(", ")", ":", " ", "pass">>,
      <<"def", " ", "__str__", "(", ")", ":", " ", "pass">>,
      <<"async", " ", "def", " ", "g", "(", "a", ",">>,
      <<"a", ")", ":", " ", "pass">>,
      <<"class", " ", "C", ":">>,
      <<"pass">>,
      <<StrOne>> }

\* the lines of the sources: every statement line at column 0 or 4, and the
\* statements that can end a nested block at column 8
PyLineForms ==
    {Spaces(n) \o b \o <<NL>> : n \in {0, 4}, b \in PyLineBodies}
        \cup {Spaces(8) \o b \o <<NL>> : b \in {<<"pass">>, <<StrOne>>}}

PyPlainSources == {Join(ls) : ls \in SeqsUpTo(PyLineForms, MaxPyLines)}

MaxDecorators == 2

\* decorator lines: a verb on app and on another receiver, a second verb, a
\* route without and with methods (a list of literals, a list that starts with
\* a name, a string), a route without path, a verb with a name as path, a
\* plain name, an attribute that is not called, a called name
PyDecoratorLines ==
    { <<"@", "app", ".", "get", "(", "'/x'", ")">>,
      <<"@", "db", ".", "get", "(", "'/x'", ")">>,
      <<"@", "app", ".", "post", "(", "'/y'", ")">>,
      <<"@", "app", ".", "route", "(", "'/x'", ")">>,
      <<"@", "app", ".", "route", "(", "'/x'", ",", " ", "methods", "=", "[", "'post'", ",",
        " ", "'put'", "]", ")">>,
      <<"@", "app", ".", "route", "(", "'/y'", ",", " ", "methods", "=", "[", "x", ",", " ",
        "'put'", "]", ")">>,
      <<"@", "app", ".", "route", "(", "methods", "=", "[", "'post'", "]", ")">>,
      <<"@", "app", ".", "route", "(", "'/x'", ",", " ", "methods", "=", "'post'", ")">>,
      <<"@", "app", ".", "get", "(", "x", ")">>,
      <<"@", "x">>,
      <<"@", "app", ".", "get">>,
      <<"@", "get", "(", "'/x'", ")">> }

\* the definitions that carry the decorators: without docstring on two lines
\* and on one line, and with a docstring
PyDecoratedDefs ==
    { <<"def", " ", "f", "(", ")", ":", NL>> \o Spaces(4) \o <<"pass", NL>>,
      <<"async", " ", "def", " ", "g", "(", ")", ":", " ", "pass", NL>>,
      <<"def", " ", "f", "(", ")", ":", NL>> \o Spaces(4) \o <<StrOne, NL>> }

PyDecoratedSources ==
    {Join([i \in 1..Len(ds) |-> ds[i] \o <<NL>>]) \o d :
        ds \in SeqsUpTo(PyDecoratorLines, MaxDecorators), d \in PyDecoratedDefs}

PySources == PyPlainSources \cup PyDecoratedSources


\* ------------------------------------------------------------------------
\* Inputs of the TypeScript analyzer
\* ------------------------------------------------------------------------
MaxTsLines == 3
MaxGap == 6
MaxDocGap == JsdocWindow + 1

\* source lines: the three function forms, an exported async function, a
\* private function, an Express route on app and (indented) on this.app, the
\* same call on another receiver, a NestJS endpoint decorator and a controller
\* decorator, a one-line JSDoc block, a plain line, a blank line
TsLineBodies ==
    { <<"function", " ", "f", "(", ")", " ", "{", "}">>,
      <<"export", " ", "async", " ", "function", " ", "g", "(", ")", " ", "{", "}">>,
      <<"const", " ", "g", " ", "=", " ", "async", " ", "(", ")", " ", "=>", " ", "x">>,
      <<"const", " ", "f", " ", "=", " ", "async", " ", "function", " ", "(", ")", " ", "{", "}">>,
      <<"function", " ", "_h", "(", ")", " ", "{", "}">>,
      <<"app", ".", "get", "(", "'", "/", "x", "'", ",", " ", "h", ")">>,
      <<" ", " ", "this", ".", "app", ".", "Post", "(", "\"", "x", "/", "\"", ")">>,
      <<"db", ".", "get", "(", "'", "/", "x", "'", ")">>,
      <<"@", "Get", "(", "'", "x", "'", ")">>,
      <<"@", "Post", "(", ")">>,
      <<"myapp", ".", "get", "(", "'", "/", "y", "'", ")">>,
      <<"@", "Controller", "(", "'", "/", "api", "/", "'", ")">>,
      <<"/**", " ", "D", " ", "*/">>,
      <<"x">>,
      <<>> }

\* the sources of up to n lines
TsSources(n) ==
    {Join([i \in 1..Len(b) |-> b[i] \o <<NL>>]) : b \in SeqsUpTo(TsLineBodies, n)}

\* lines set apart by lines that match nothing: a line, up to MaxGap plain
\* lines, a line, up to MaxGap plain lines, a function
TsGapBodies ==
    { <<"@", "Get", "(", "'", "x", "'", ")">>,
      <<"@", "Post", "(", ")">>,
      <<"app", ".", "get", "(", "'", "/", "x", "'", ",", " ", "h", ")">>,
      <<"x">> }

TsGapSources ==
    {a \o <<NL>> \o Repeat(<<"x", NL>>, j) \o b \o <<NL>> \o Repeat(<<"x", NL>>, k)
         \o <<"function", " ", "f", "(", ")", " ", "{", "}", NL>> :
       a \in TsGapBodies, b \in TsGapBodies, j \in 0..MaxGap, k \in 0..MaxGap}

\* a doc block, up to MaxDocGap blank or plain lines, a function
TsDocGapSources ==
    {<<"/**", " ", "D", " ", "*/", NL>> \o Repeat(filler \o <<NL>>, k)
         \o <<"function", " ", "f", "(", ")", " ", "{", "}", NL>> :
       filler \in {<<>>, <<" ">>, <<"x">>}, k \in 0..MaxDocGap}

\* a doc block of k + 2 lines right above a function
TsDocBlockSources ==
    {<<"/**", NL>> \o Repeat(<<" ", "x", NL>>, k) \o <<" ", "*/", NL>>
         \o <<"function", " ", "f", "(", ")", " ", "{", "}", NL>> : k \in 0..MaxDocGap}

\* function forms that run over several lines, the words in front of the name
\* on lines of their own; lines that hold two matches: a function and a
\* decorator, a function and a call, two calls
TsSpanBodies ==
    { <<"export">>,
      <<"async">>,
      <<"const", " ", "f", " ", "=", " ", "async">>,
      <<"function", " ", "f", "(", ")", " ", "{", "}">>,
      <<"function", " ", "_h", "(", ")", " ", "{", "}">>,
      <<"function", "(", ")", " ", "{", "}">>,
      <<"function", " ", "g", "(", ")", " ", "{", "}", " ", "@", "Post", "(", ")">>,
      <<"function", " ", "_h", "(", ")", " ", "{", "}", " ",
        "app", ".", "get", "(", "'", "/", "x", "'", ")">>,
      <<"app", ".", "get", "(", "'", "/", "x", "'", ",", " ", "h", ")", ";", " ",
        "app", ".", "post", "(", "'", "/", "y", "'", ",", " ", "h", ")">>,
      <<"/**", " ", "D", " ", "*/">> }

TsSpanSources ==
    {Join([i \in 1..Len(b) |-> b[i] \o <<NL>>]) : b \in SeqsUpTo(TsSpanBodies, MaxTsLines)}

TsInputs == TsSources(MaxTsLines) \cup TsGapSources \cup TsDocGapSources \cup TsDocBlockSources
                \cup TsSpanSources

\* ------------------------------------------------------------------------
\* One file through the pipeline: inputs and the steps as operators
\* ------------------------------------------------------------------------
MaxFileLines == 2
MaxDocLines == JsdocWindow + 1

\* statement lines of the Python files: a header, a one-line definition whose
\* body opens a parenthesis, the line that closes it, a signature continued
\* over two lines, a class header, a simple statement, a string literal
FilePyLineBodies ==
    { <<"def", " ", "f", "(", ")", ":">>,
      <<"def", " ", "g", "(", ")", ":", " ", "x", "(">>,
      <<")">>,
      <<"async", " ", "def", " ", "g", "(", "a", ",">>,
      <<"a", ")", ":", " ", "pass">>,
      <<"class", " ", "C", ":">>,
      <<"pass">>,
      <<StrOne>> }

FilePySources ==
    {Join(ls) : ls \in SeqsUpTo({Spaces(n) \o b \o <<NL>> : n \in {0, 4}, b \in FilePyLineBodies},
                               MaxFileLines)}

FileSources(lang) == IF lang = "python" THEN FilePySources ELSE TsSources(MaxFileLines)

\* a well-formed doc block of n lines of the language's family: a
\* triple-quoted docstring, a /** ... */ block
WellFormedDoc(lang, n) ==
    IF lang = "python"
    THEN IF n = 1 THEN <<StrOne>>
         ELSE <<StrOpen, NL>> \o Repeat(<<"D", NL>>, n - 2) \o <<StrClose>>
    ELSE IF n = 1 THEN <<"/**", " ", "D", " ", "*/">>
         ELSE <<"/**", NL>> \o Repeat(<<" ", "*", " ", "D", NL>>, n - 2) \o <<" ", "*/">>

\* generate_docs: one proposal per symbol, at the symbol's line
GenerateDocs(symbols, doc) ==
    [i \in 1..Len(symbols) |-> [line |-> symbols[i].line, proposed_doc |-> doc]]

\* analyzer.analyze(content, diff) with the analyzer of the language
Analyze(lang, content) ==
    IF lang = "python" THEN PyAnalyze(content).symbols ELSE TsAnalyze(content)
\* ------------------------------------------------------------------------
\* State
\* ------------------------------------------------------------------------
VARIABLES
    \* _apply_proposals_to_source
    source,        \* argument: the source text
    proposals,     \* argument: the list of accepted proposals
    language,      \* argument: "python" or "typescript"
    lines,         \* local: the list of lines being edited
    sorted_props,  \* local: the proposals not yet processed, descending by line
    pc,            \* position in the function
    result,        \* the returned text
    \* PythonAnalyzer.analyze
    py_content,    \* argument: the source text
    py_todo,       \* the queue of ast.walk
    py_symbols,    \* local: symbols
    py_pc,         \* position in the method
    \* one file through analyze_file and apply_proposals, then analyzed again
    file_language, \* the language of the file's extension
    file_text,     \* the text of the file on disk
    file_symbols,  \* the symbols analyze returned for the file
    file_again,    \* the symbols analyze returns for the file once it is documented
    file_pc,       \* position in the run
    \* TypeScriptAnalyzer.analyze
    ts_content,            \* argument: the source text
    ts_nestjs_endpoints,   \* local: nestjs_endpoints, the items in insertion order
    ts_express_endpoints,  \* local: express_endpoints, the items in insertion order
    ts_matches,            \* the matches of the function patterns not yet visited
    ts_items,              \* the items of express_endpoints not yet visited
    ts_seen_lines,         \* local: seen_lines
    ts_symbols,            \* local: symbols
    ts_pc,                 \* position in the method
    \* _process_files
    cli_files,             \* argument: files
    cli_staged_only,       \* argument: staged_only
    cli_accept_all,        \* argument: accept_all
    cli_dry_run,           \* argument: dry_run
    cli_openapi_path,      \* local: openapi_path, "None" when no file was found
    cli_postman_path,      \* local: postman_path, "None" when no file was found
    cli_k,                 \* the position of the for loop in files
    cli_proposals,         \* local: proposals
    cli_all_decisions,     \* local: all_decisions
    cli_openapi_updated,   \* local: openapi_updated
    cli_postman_updated,   \* local: postman_updated
    cli_endpoint_todo,     \* endpoint_proposals not yet visited
    cli_pc,                \* position in the function
    \* what _process_files did to its environment, call after call
    env_analyzed,          \* the calls of analyze_file: the file, what was raised, the number of proposals
    env_listed,            \* the files whose proposals the dry run listed
    env_writes,            \* per file, the proposal lists whose insertion was written to it
    env_openapi_calls,     \* the proposals for which update_operation was called
    env_postman_calls,     \* the proposals for which update_request was called
    env_staged,            \* the calls of git.stage_files: the list of files
    \* show_file_proposals
    dlg_file_path,         \* argument: file_path
    dlg_proposals,         \* argument: proposals
    dlg_accept_all_arg,    \* argument: accept_all, as it was passed
    dlg_accept_all,        \* accept_all, which choice "a" sets
    dlg_i,                 \* the position of the for loop in proposals
    dlg_accepted,          \* local: accepted
    dlg_rejected,          \* local: rejected
    dlg_choice,            \* local: choice
    dlg_prompted,          \* the proposals Prompt.ask was called for
    dlg_pc,                \* position in the function
    \* the OpenAPI file through update_operation
    oa_data,               \* the spec in the file
    oa_call,               \* the arguments of the last call
    oa_n,                  \* the number of calls
    \* the Postman file through update_request
    pm_data,               \* the collection in the file
    pm_start,              \* the collection in the file before the first call
    pm_calls               \* the arguments of the calls, in order

engine_vars == <<source, proposals, language, lines, sorted_props, pc, result>>
py_vars == <<py_content, py_todo, py_symbols, py_pc>>
file_vars == <<file_language, file_text, file_symbols, file_again, file_pc>>
ts_vars == <<ts_content, ts_nestjs_endpoints, ts_express_endpoints, ts_matches, ts_items,
            ts_seen_lines, ts_symbols, ts_pc>>
cli_vars == <<cli_files, cli_staged_only, cli_accept_all, cli_dry_run, cli_openapi_path,
             cli_postman_path, cli_k, cli_proposals, cli_all_decisions, cli_openapi_updated,
             cli_postman_updated, cli_endpoint_todo, cli_pc>>
env_vars == <<env_analyzed, env_listed, env_writes, env_openapi_calls, env_postman_calls,
             env_staged>>
dlg_vars == <<dlg_file_path, dlg_proposals, dlg_accept_all_arg, dlg_accept_all, dlg_i,
             dlg_accepted, dlg_rejected, dlg_choice, dlg_prompted, dlg_pc>>
oa_vars == <<oa_data, oa_call, oa_n>>
pm_vars == <<pm_data, pm_start, pm_calls>>
run_vars == <<cli_vars, env_vars, dlg_vars>>
doc_vars == <<oa_vars, pm_vars>>
vars == <<engine_vars, py_vars, file_vars, ts_vars, run_vars, doc_vars>>

\* no call of the function is in progress
EngineIdle ==
    /\ source = <<>> /\ proposals = <<>> /\ language = "python"
    /\ lines = <<>> /\ sorted_props = <<>> /\ pc = "idle" /\ result = <<>>

PyIdle ==
    /\ py_content = <<>> /\ py_todo = <<>> /\ py_symbols = <<>> /\ py_pc = "idle"

FileIdle ==
    /\ file_language = "python" /\ file_text = <<>> /\ file_symbols = <<>>
    /\ file_again = <<>> /\ file_pc = "idle"

TsIdle ==
    /\ ts_content = <<>> /\ ts_nestjs_endpoints = <<>> /\ ts_express_endpoints = <<>>
    /\ ts_matches = <<>> /\ ts_items = <<>> /\ ts_seen_lines = {} /\ ts_symbols = <<>>
    /\ ts_pc = "idle"

CliIdle ==
    /\ cli_files = <<>> /\ cli_staged_only = FALSE /\ cli_accept_all = FALSE
    /\ cli_dry_run = FALSE /\ cli_openapi_path = "None" /\ cli_postman_path = "None"
    /\ cli_k = 0 /\ cli_proposals = <<>> /\ cli_all_decisions = <<>>
    /\ cli_openapi_updated = <<>> /\ cli_postman_updated = <<>> /\ cli_endpoint_todo = <<>>
    /\ cli_pc = "idle"

EnvIdle ==
    /\ env_analyzed = <<>> /\ env_listed = <<>> /\ env_writes = <<>>
    /\ env_openapi_calls = <<>> /\ env_postman_calls = <<>> /\ env_staged = <<>>

DlgIdle ==
    /\ dlg_file_path = 0 /\ dlg_proposals = <<>> /\ dlg_accept_all_arg = FALSE
    /\ dlg_accept_all = FALSE /\ dlg_i = 0 /\ dlg_accepted = <<>> /\ dlg_rejected = <<>>
    /\ dlg_choice = "None" /\ dlg_prompted = {} /\ dlg_pc = "idle"

OaIdle ==
    /\ oa_data = <<>> /\ oa_call = <<>> /\ oa_n = 0

PmIdle ==
    /\ pm_data = <<>> /\ pm_start = <<>> /\ pm_calls = <<>>

RunIdle == CliIdle /\ EnvIdle /\ DlgIdle

DocIdle == OaIdle /\ PmIdle

\* ---- _apply_proposals_to_source, one call ----
Init ==
    /\ RunIdle
    /\ DocIdle
    /\ source \in Sources
    /\ proposals \in ProposalLists
    /\ language \in Languages
    /\ lines = <<>>
    /\ sorted_props = <<>>
    /\ pc = "call"
    /\ result = <<>>
    /\ PyIdle
    /\ FileIdle
    /\ TsIdle

\* lines 56-59: split the source and sort the proposals
Begin ==
    /\ pc = "call"
    /\ lines' = SplitKeep(source)
    /\ sorted_props' = SortedProps(proposals)
    /\ pc' = "loop"
    /\ UNCHANGED <<source, proposals, language, result, py_vars, file_vars, ts_vars, run_vars, doc_vars>>

\* lines 61-94: one iteration of the loop
LoopStep ==
    /\ pc = "loop"
    /\ sorted_props # <<>>
    /\ lines' = ApplyOne(lines, Head(sorted_props), language)
    /\ sorted_props' = Tail(sorted_props)
    /\ UNCHANGED <<source, proposals, language, pc, result, py_vars, file_vars, ts_vars, run_vars, doc_vars>>

\* line 96: join and return
Return ==
    /\ pc = "loop"
    /\ sorted_props = <<>>
    /\ result' = Join(lines)
    /\ pc' = "done"
    /\ UNCHANGED <<source, proposals, language, lines, sorted_props, py_vars, file_vars, ts_vars, run_vars, doc_vars>>

Next == Begin \/ LoopStep \/ Return

Spec == Init /\ [][Next]_vars

\* ---- PythonAnalyzer.analyze, one call ----
InitPy ==
    /\ RunIdle
    /\ DocIdle
    /\ EngineIdle
    /\ py_content \in PySources
    /\ py_todo = <<>>
    /\ py_symbols = <<>>
    /\ py_pc = "call"
    /\ FileIdle
    /\ TsIdle

\* lines 81-84: ast.parse raises; the handler returns [] when it catches the
\* exception, otherwise the exception leaves the method
PyParseError ==
    /\ py_pc = "call"
    /\ ~AstParse(py_content).ok
    /\ py_pc' = IF ExceptClause("SyntaxError") THEN "returned" ELSE "raised"
    /\ UNCHANGED <<py_content, py_todo, py_symbols, engine_vars, file_vars, ts_vars, run_vars, doc_vars>>

\* lines 82-89: ast.parse returns the tree and the walk starts from it
PyParsed ==
    /\ py_pc = "call"
    /\ AstParse(py_content).ok
    /\ py_todo' = <<AstParse(py_content).tree>>
    /\ py_pc' = "walk"
    /\ UNCHANGED <<py_content, py_symbols, engine_vars, file_vars, ts_vars, run_vars, doc_vars>>

\* lines 89-126: one turn of the loop over ast.walk(tree)
PyWalkStep ==
    /\ py_pc = "walk"
    /\ py_todo # <<>>
    /\ py_todo' = Tail(py_todo) \o Head(py_todo).body
    /\ py_symbols' = WalkSymbols(Head(py_todo), py_symbols, SplitLines(py_content))
    /\ UNCHANGED <<py_content, py_pc, engine_vars, file_vars, ts_vars, run_vars, doc_vars>>

\* line 128: return symbols
PyReturn ==
    /\ py_pc = "walk"
    /\ py_todo = <<>>
    /\ py_pc' = "returned"
    /\ UNCHANGED <<py_content, py_todo, py_symbols, engine_vars, file_vars, ts_vars, run_vars, doc_vars>>

NextPy == PyParseError \/ PyParsed \/ PyWalkStep \/ PyReturn

SpecPy == InitPy /\ [][NextPy]_vars


\* ---- one file: analyze_file, apply_proposals, and analyze once more ----
InitFile ==
    /\ RunIdle
    /\ DocIdle
    /\ EngineIdle
    /\ PyIdle
    /\ TsIdle
    /\ file_language \in Languages
    /\ file_text \in FileSources(file_language)
    /\ file_symbols = <<>>
    /\ file_again = <<>>
    /\ file_pc = "start"

\* analyze_file, lines 69-78: the analyzer of the file's extension, on the
\* file as it was read and, in the next run, on the file as it was rewritten
FileAnalyze ==
    /\ file_pc \in {"start", "applied"}
    /\ \E symbols \in {Analyze(file_language, file_text)} :
           \/ /\ file_pc = "start"
              /\ file_symbols' = symbols
              /\ file_pc' = "analyzed"
              /\ UNCHANGED file_again
           \/ /\ file_pc = "applied"
              /\ file_again' = symbols
              /\ file_pc' = "reanalyzed"
              /\ UNCHANGED file_symbols
    /\ UNCHANGED <<file_language, file_text, engine_vars, py_vars, ts_vars, run_vars, doc_vars>>

\* analyze_file, lines 77-85, and apply_proposals: when there are symbols, a
\* doc block of n lines is proposed for each of them at its line, and the
\* file is rewritten with the blocks inserted
FileApply ==
    /\ file_pc = "analyzed"
    /\ file_symbols # <<>>
    /\ \E n \in 1..MaxDocLines :
           file_text' = ApplyProposalsToSource(
                            file_text,
                            GenerateDocs(file_symbols, WellFormedDoc(file_language, n)),
                            file_language)
    /\ file_pc' = "applied"
    /\ UNCHANGED <<file_language, file_symbols, file_again, engine_vars, py_vars, ts_vars, run_vars, doc_vars>>

NextFile == FileAnalyze \/ FileApply

SpecFile == InitFile /\ [][NextFile]_vars

\* ---- TypeScriptAnalyzer.analyze, one call ----
InitTs ==
    /\ RunIdle
    /\ DocIdle
    /\ EngineIdle
    /\ PyIdle
    /\ FileIdle
    /\ ts_content \in TsInputs
    /\ ts_nestjs_endpoints = <<>>
    /\ ts_express_endpoints = <<>>
    /\ ts_matches = <<>>
    /\ ts_items = <<>>
    /\ ts_seen_lines = {}
    /\ ts_symbols = <<>>
    /\ ts_pc = "call"

\* lines 70-98: the controller base, the two endpoint maps, and the matches
\* the loops over the function patterns will visit, pattern after pattern
TsScan ==
    /\ ts_pc = "call"
    /\ ts_nestjs_endpoints' = NestjsEndpoints(FindIter("endpoint", ts_content, 1),
                                              ControllerBase(ts_content), <<>>)
    /\ ts_express_endpoints' = ExpressEndpoints(FindIter("express", ts_content, 1), <<>>)
    /\ ts_matches' = FindIter("func1", ts_content, 1) \o FindIter("func2", ts_content, 1)
                         \o FindIter("func3", ts_content, 1)
    /\ ts_pc' = "functions"
    /\ UNCHANGED <<ts_content, ts_items, ts_seen_lines, ts_symbols,
                   engine_vars, py_vars, file_vars, run_vars, doc_vars>>

\* lines 99-147: one match of a function pattern
TsFuncMatch ==
    /\ ts_pc = "functions"
    /\ ts_matches # <<>>
    /\ LET st == FuncMatch([seen_lines |-> ts_seen_lines, symbols |-> ts_symbols],
                           Head(ts_matches), SplitLines(ts_content),
                           ts_express_endpoints, ts_nestjs_endpoints)
       IN /\ ts_seen_lines' = st.seen_lines
          /\ ts_symbols' = st.symbols
    /\ ts_matches' = Tail(ts_matches)
    /\ UNCHANGED <<ts_content, ts_nestjs_endpoints, ts_express_endpoints, ts_items, ts_pc,
                   engine_vars, py_vars, file_vars, run_vars, doc_vars>>

\* line 150: the loop over express_endpoints.items() starts
TsFuncsDone ==
    /\ ts_pc = "functions"
    /\ ts_matches = <<>>
    /\ ts_items' = ts_express_endpoints
    /\ ts_pc' = "standalone"
    /\ UNCHANGED <<ts_content, ts_nestjs_endpoints, ts_express_endpoints, ts_matches,
                   ts_seen_lines, ts_symbols, engine_vars, py_vars, file_vars, run_vars, doc_vars>>

\* lines 150-167: one item of express_endpoints
TsStandalone ==
    /\ ts_pc = "standalone"
    /\ ts_items # <<>>
    /\ LET st == StandaloneEndpoint([seen_lines |-> ts_seen_lines, symbols |-> ts_symbols],
                                    Head(ts_items), SplitLines(ts_content))
       IN /\ ts_seen_lines' = st.seen_lines
          /\ ts_symbols' = st.symbols
    /\ ts_items' = Tail(ts_items)
    /\ UNCHANGED <<ts_content, ts_nestjs_endpoints, ts_express_endpoints, ts_matches, ts_pc,
                   engine_vars, py_vars, file_vars, run_vars, doc_vars>>

\* lines 169-170: sort and return
TsReturn ==
    /\ ts_pc = "standalone"
    /\ ts_items = <<>>
    /\ ts_symbols' = SortByLine(ts_symbols)
    /\ ts_pc' = "returned"
    /\ UNCHANGED <<ts_content, ts_nestjs_endpoints, ts_express_endpoints, ts_matches,
                   ts_items, ts_seen_lines, engine_vars, py_vars, file_vars, run_vars, doc_vars>>

NextTs == TsScan \/ TsFuncMatch \/ TsFuncsDone \/ TsStandalone \/ TsReturn

SpecTs == InitTs /\ [][NextTs]_vars

\* ---- either analyzer, one call ----
InitAnalyzer == InitPy \/ InitTs

NextAnalyzer == NextPy \/ NextTs

SpecAnalyzer == InitAnalyzer /\ [][NextAnalyzer]_vars

\* ------------------------------------------------------------------------
\* show_file_proposals (annotator/ui/diff_viewer.py), one call
\* ------------------------------------------------------------------------
MaxRunProps == 2

\* what the code tests of a proposal's openapi_snippet: None or an empty
\* dict, a dict with an HTTP method among its keys, a dict without one
SnippetKinds == {"None", "with_method", "without_method"}

\* the proposal objects generate_docs builds: the k-th object of a list is
\* told from the others by its identity, postman_item is never set
RunProposal(k, snippet) ==
    [id |-> k, openapi_snippet |-> snippet, postman_item |-> "None"]

RunProposalLists ==
    UNION { { [k \in 1..n |-> RunProposal(k, sn[k])] : sn \in [1..n -> SnippetKinds] }
            : n \in 0..MaxRunProps }

\* the files of a run: collect_files returns pairwise different paths, here
\* the numbers from 1
MaxRunFiles == 2

FilePaths == 1..MaxRunFiles

\* the answers Prompt.ask returns: it asks again until the input is a choice
Choices == {"y", "n", "s", "a"}

\* (mutation of Decide: choice "a" accepts the proposal and leaves accept_all)
DecideNoAll(st, prop, choice) ==
    IF choice \in {"a", "y"}
    THEN [st EXCEPT !.accepted = Append(st.accepted, prop)]
    ELSE [st EXCEPT !.rejected = Append(st.rejected, prop)]

\* lines 179-188: the decision a choice other than "s" records
Decide(st, prop, choice) ==
    IF choice = "a"
    THEN [st EXCEPT !.accepted = Append(st.accepted, prop), !.accept_all = TRUE]
    ELSE IF choice = "y"
    THEN [st EXCEPT !.accepted = Append(st.accepted, prop)]
    ELSE [st EXCEPT !.rejected = Append(st.rejected, prop)]

InitDialogue ==
    /\ EngineIdle /\ PyIdle /\ FileIdle /\ TsIdle
    /\ CliIdle /\ EnvIdle /\ DocIdle
    /\ dlg_file_path \in FilePaths
    /\ dlg_proposals \in RunProposalLists
    /\ dlg_accept_all_arg \in BOOLEAN
    /\ dlg_accept_all = dlg_accept_all_arg
    /\ dlg_i = 0
    /\ dlg_accepted = <<>>
    /\ dlg_rejected = <<>>
    /\ dlg_choice = "None"
    /\ dlg_prompted = {}
    /\ dlg_pc = "call"

\* lines 118-131: an empty list returns at once, otherwise the loop starts
DlgBegin ==
    /\ dlg_pc = "call"
    /\ dlg_i' = 1
    /\ dlg_pc' = IF dlg_proposals = <<>> THEN "returned" ELSE "for"
    /\ UNCHANGED <<dlg_file_path, dlg_proposals, dlg_accept_all_arg, dlg_accept_all,
                   dlg_accepted, dlg_rejected, dlg_choice, dlg_prompted,
                   engine_vars, py_vars, file_vars, ts_vars, cli_vars, env_vars, doc_vars>>

\* lines 133-159: the next proposal is displayed; with accept_all it is
\* accepted without a prompt
DlgShow ==
    /\ dlg_pc = "for"
    /\ dlg_i <= Len(dlg_proposals)
    /\ IF dlg_accept_all
       THEN /\ dlg_accepted' = Append(dlg_accepted, dlg_proposals[dlg_i])
            /\ dlg_i' = dlg_i + 1
            /\ UNCHANGED dlg_pc
       ELSE /\ dlg_pc' = "prompt"
            /\ UNCHANGED <<dlg_accepted, dlg_i>>
    /\ UNCHANGED <<dlg_file_path, dlg_proposals, dlg_accept_all_arg, dlg_accept_all,
                   dlg_rejected, dlg_choice, dlg_prompted,
                   engine_vars, py_vars, file_vars, ts_vars, cli_vars, env_vars, doc_vars>>

\* lines 162-169: Prompt.ask returns the user's choice
DlgAsk(choice) ==
    /\ dlg_pc = "prompt"
    /\ dlg_choice' = choice
    /\ dlg_prompted' = dlg_prompted \cup {dlg_proposals[dlg_i].id}
    /\ dlg_pc' = "asked"
    /\ UNCHANGED <<dlg_file_path, dlg_proposals, dlg_accept_all_arg, dlg_accept_all, dlg_i,
                   dlg_accepted, dlg_rejected,
                   engine_vars, py_vars, file_vars, ts_vars, cli_vars, env_vars, doc_vars>>

\* the user shows the diff once more
DlgAskShow == DlgAsk("s")

\* the user answers the prompt
DlgAnswer == \E choice \in Choices \ {"s"} : DlgAsk(choice)

\* lines 170-178: choice "s" prints the diff of the source with this one
\* proposal inserted, computed in memory, and the prompt comes again
DlgPreview ==
    /\ dlg_pc = "asked"
    /\ dlg_choice = "s"
    /\ dlg_pc' = "prompt"
    /\ UNCHANGED <<dlg_file_path, dlg_proposals, dlg_accept_all_arg, dlg_accept_all, dlg_i,
                   dlg_accepted, dlg_rejected, dlg_choice, dlg_prompted,
                   engine_vars, py_vars, file_vars, ts_vars, cli_vars, env_vars, doc_vars>>

\* lines 179-188: any other choice records the decision and leaves the
\* while loop
DlgDecide ==
    /\ dlg_pc = "asked"
    /\ dlg_choice # "s"
    /\ LET st == Decide([accepted |-> dlg_accepted, rejected |-> dlg_rejected,
                         accept_all |-> dlg_accept_all],
                        dlg_proposals[dlg_i], dlg_choice)
       IN /\ dlg_accepted' = st.accepted
          /\ dlg_rejected' = st.rejected
          /\ dlg_accept_all' = st.accept_all
    /\ dlg_i' = dlg_i + 1
    /\ dlg_pc' = "for"
    /\ UNCHANGED <<dlg_file_path, dlg_proposals, dlg_accept_all_arg, dlg_choice, dlg_prompted,
                   engine_vars, py_vars, file_vars, ts_vars, cli_vars, env_vars, doc_vars>>

\* line 190: the loop is over and the Decision is returned
DlgReturn ==
    /\ dlg_pc = "for"
    /\ dlg_i > Len(dlg_proposals)
    /\ dlg_pc' = "returned"
    /\ UNCHANGED <<dlg_file_path, dlg_proposals, dlg_accept_all_arg, dlg_accept_all, dlg_i,
                   dlg_accepted, dlg_rejected, dlg_choice, dlg_prompted,
                   engine_vars, py_vars, file_vars, ts_vars, cli_vars, env_vars, doc_vars>>

NextDialogue ==
    DlgBegin \/ DlgShow \/ DlgAskShow \/ DlgAnswer \/ DlgPreview \/ DlgDecide \/ DlgReturn

SpecDialogue == InitDialogue /\ [][NextDialogue]_vars

\* the user of the claim about the dialogue: every step that can be taken is
\* taken in the end, and a prompt that comes again and again gets an answer
\* other than "s"
SpecDialogueFair ==
    /\ InitDialogue
    /\ [][NextDialogue]_vars
    /\ WF_vars(NextDialogue)
    /\ SF_vars(DlgAnswer)

\* ------------------------------------------------------------------------
\* _process_files (annotator/cli.py), one call from run or from check
\* ------------------------------------------------------------------------
\* what analyze_file raises: reading the file, the analyzer, the generation
\* step and the parsing of its answer raise subclasses of Exception
Raised == {"Exception"}

\* (mutation of Handled: the loop has no except clause)
HandledNever(exc) == FALSE

\* line 92: except Exception
Handled(exc) == exc \in {"Exception"}

\* the outcomes of analyze_file for a file
Outcomes ==
    {[raised |-> exc, proposals |-> <<>>] : exc \in Raised}
        \cup {[raised |-> "None", proposals |-> ps] : ps \in RunProposalLists}

\* (mutation of DryRunBranch: the dry run is not told from a run)
DryRunBranchNever(dry_run) == FALSE

\* line 102: if dry_run
DryRunBranch(dry_run) == dry_run

\* line 122: the accepted proposals with a snippet
EndpointProposals(accepted) ==
    SelectSeq(accepted, LAMBDA p : p.openapi_snippet # "None")

\* lines 172-173 and 198-199: the path is appended unless it is in the list
AppendOnce(updated_list, path) ==
    IF \E k \in 1..Len(updated_list) : updated_list[k] = path
    THEN updated_list ELSE Append(updated_list, path)

\* (mutation of Modified: the file of every decision)
ModifiedAll(all_decisions) ==
    [k \in 1..Len(all_decisions) |-> all_decisions[k].file_path]

\* line 133: the files of the decisions with an accepted proposal
Modified(all_decisions) ==
    LET kept == SelectSeq(all_decisions, LAMBDA d : d.accepted # <<>>)
    IN [k \in 1..Len(kept) |-> kept[k].file_path]

\* run passes the --all flag and dry_run False, check passes accept_all False
\* and dry_run True
InitCli ==
    /\ EngineIdle /\ PyIdle /\ FileIdle /\ TsIdle /\ DocIdle /\ DlgIdle
    /\ cli_files \in {[k \in 1..n |-> k] : n \in 0..MaxRunFiles}
    /\ cli_staged_only \in BOOLEAN
    /\ cli_dry_run \in BOOLEAN
    /\ cli_accept_all \in IF cli_dry_run THEN {FALSE} ELSE BOOLEAN
    /\ cli_openapi_path \in {"None", "openapi.yaml"}
    /\ cli_postman_path \in {"None", "api.postman_collection.json"}
    /\ cli_k = 0
    /\ cli_proposals = <<>>
    /\ cli_all_decisions = <<>>
    /\ cli_openapi_updated = <<>>
    /\ cli_postman_updated = <<>>
    /\ cli_endpoint_todo = <<>>
    /\ cli_pc = "call"
    /\ env_analyzed = <<>>
    /\ env_listed = <<>>
    /\ env_writes = [f \in FilePaths |-> <<>>]
    /\ env_openapi_calls = <<>>
    /\ env_postman_calls = <<>>
    /\ env_staged = <<>>

\* lines 66-82: no files, no run; otherwise the loop starts
CliBegin ==
    /\ cli_pc = "call"
    /\ cli_k' = 1
    /\ cli_pc' = IF cli_files = <<>> THEN "done" ELSE "for"
    /\ UNCHANGED <<cli_files, cli_staged_only, cli_accept_all, cli_dry_run, cli_openapi_path,
                   cli_postman_path, cli_proposals, cli_all_decisions, cli_openapi_updated,
                   cli_postman_updated, cli_endpoint_todo,
                   env_vars, dlg_vars, engine_vars, py_vars, file_vars, ts_vars, doc_vars>>

\* lines 84-100: the next file is analysed; a file whose analysis raises and
\* a file without proposals are passed over
CliAnalyze ==
    /\ cli_pc = "for"
    /\ cli_k <= Len(cli_files)
    /\ \E outcome \in Outcomes :
           /\ env_analyzed' = Append(env_analyzed, [file_path |-> cli_files[cli_k],
                                                    raised |-> outcome.raised,
                                                    count |-> Len(outcome.proposals)])
           /\ IF outcome.raised # "None"
              THEN /\ cli_pc' = IF Handled(outcome.raised) THEN "for" ELSE "raised"
                   /\ cli_k' = cli_k + 1
                   /\ UNCHANGED cli_proposals
              ELSE IF outcome.proposals = <<>>
              THEN /\ cli_k' = cli_k + 1
                   /\ UNCHANGED <<cli_pc, cli_proposals>>
              ELSE /\ cli_proposals' = outcome.proposals
                   /\ cli_pc' = "proposals"
                   /\ UNCHANGED cli_k
    /\ UNCHANGED <<cli_files, cli_staged_only, cli_accept_all, cli_dry_run, cli_openapi_path,
                   cli_postman_path, cli_all_decisions, cli_openapi_updated,
                   cli_postman_updated, cli_endpoint_todo,
                   env_listed, env_writes, env_openapi_calls, env_postman_calls, env_staged,
                   dlg_vars, engine_vars, py_vars, file_vars, ts_vars, doc_vars>>

\* lines 102-106: the dry run lists the proposals and goes on
CliDryRun ==
    /\ cli_pc = "proposals"
    /\ DryRunBranch(cli_dry_run)
    /\ env_listed' = Append(env_listed, cli_files[cli_k])
    /\ cli_k' = cli_k + 1
    /\ cli_pc' = "for"
    /\ UNCHANGED <<cli_files, cli_staged_only, cli_accept_all, cli_dry_run, cli_openapi_path,
                   cli_postman_path, cli_proposals, cli_all_decisions, cli_openapi_updated,
                   cli_postman_updated, cli_endpoint_todo,
                   env_analyzed, env_writes, env_openapi_calls, env_postman_calls, env_staged,
                   dlg_vars, engine_vars, py_vars, file_vars, ts_vars, doc_vars>>

\* lines 108-115: the call of show_file_proposals
CliShow ==
    /\ cli_pc = "proposals"
    /\ ~DryRunBranch(cli_dry_run)
    /\ dlg_file_path' = cli_files[cli_k]
    /\ dlg_proposals' = cli_proposals
    /\ dlg_accept_all_arg' = cli_accept_all
    /\ dlg_accept_all' = cli_accept_all
    /\ dlg_i' = 0
    /\ dlg_accepted' = <<>>
    /\ dlg_rejected' = <<>>
    /\ dlg_choice' = "None"
    /\ dlg_prompted' = {}
    /\ dlg_pc' = "call"
    /\ cli_pc' = "dialogue"
    /\ UNCHANGED <<cli_files, cli_staged_only, cli_accept_all, cli_dry_run, cli_openapi_path,
                   cli_postman_path, cli_k, cli_proposals, cli_all_decisions,
                   cli_openapi_updated, cli_postman_updated, cli_endpoint_todo,
                   env_vars, engine_vars, py_vars, file_vars, ts_vars, doc_vars>>

\* lines 116-122 and apply_proposals: the Decision is recorded and the call
\* of show_file_proposals is over; when a proposal was accepted the file is
\* rewritten with the accepted proposals inserted by _apply_proposals_to_source
CliDecision ==
    /\ cli_pc = "dialogue"
    /\ dlg_pc = "returned"
    /\ cli_all_decisions' = Append(cli_all_decisions, [file_path |-> dlg_file_path,
                                                       accepted |-> dlg_accepted,
                                                       rejected |-> dlg_rejected])
    /\ IF dlg_accepted # <<>>
       THEN /\ env_writes' = [env_writes EXCEPT ![cli_files[cli_k]] = Append(@, dlg_accepted)]
            /\ cli_endpoint_todo' = EndpointProposals(dlg_accepted)
            /\ cli_pc' = "endpoints"
            /\ UNCHANGED cli_k
       ELSE /\ cli_k' = cli_k + 1
            /\ cli_pc' = "for"
            /\ UNCHANGED <<env_writes, cli_endpoint_todo>>
    /\ dlg_file_path' = 0 /\ dlg_proposals' = <<>> /\ dlg_accept_all_arg' = FALSE
    /\ dlg_accept_all' = FALSE /\ dlg_i' = 0 /\ dlg_accepted' = <<>> /\ dlg_rejected' = <<>>
    /\ dlg_choice' = "None" /\ dlg_prompted' = {} /\ dlg_pc' = "idle"
    /\ UNCHANGED <<cli_files, cli_staged_only, cli_accept_all, cli_dry_run, cli_openapi_path,
                   cli_postman_path, cli_proposals, cli_openapi_updated, cli_postman_updated,
                   env_analyzed, env_listed, env_openapi_calls, env_postman_calls, env_staged,
                   engine_vars, py_vars, file_vars, ts_vars, doc_vars>>

\* lines 123-128 with _prompt_openapi_update and _prompt_postman_update: one
\* endpoint proposal; an update is made when the file exists, the snippet
\* names a method (the proposal has a postman item) and the user confirms
CliEndpoint ==
    /\ cli_pc = "endpoints"
    /\ cli_endpoint_todo # <<>>
    /\ LET prop == Head(cli_endpoint_todo)
           call == [file_path |-> cli_files[cli_k], id |-> prop.id]
       IN /\ \E confirm \in BOOLEAN :
                 IF /\ cli_openapi_path # "None"
                    /\ prop.openapi_snippet = "with_method"
                    /\ confirm
                 THEN /\ env_openapi_calls' = Append(env_openapi_calls, call)
                      /\ cli_openapi_updated' = AppendOnce(cli_openapi_updated, cli_openapi_path)
                 ELSE UNCHANGED <<env_openapi_calls, cli_openapi_updated>>
          /\ \E confirm \in BOOLEAN :
                 IF /\ cli_postman_path # "None"
                    /\ prop.postman_item # "None"
                    /\ confirm
                 THEN /\ env_postman_calls' = Append(env_postman_calls, call)
                      /\ cli_postman_updated' = AppendOnce(cli_postman_updated, cli_postman_path)
                 ELSE UNCHANGED <<env_postman_calls, cli_postman_updated>>
    /\ cli_endpoint_todo' = Tail(cli_endpoint_todo)
    /\ UNCHANGED <<cli_files, cli_staged_only, cli_accept_all, cli_dry_run, cli_openapi_path,
                   cli_postman_path, cli_k, cli_proposals, cli_all_decisions, cli_pc,
                   env_analyzed, env_listed, env_writes, env_staged,
                   dlg_vars, engine_vars, py_vars, file_vars, ts_vars, doc_vars>>

\* line 123: no endpoint proposal is left, the loop goes to the next file
CliEndpointsDone ==
    /\ cli_pc = "endpoints"
    /\ cli_endpoint_todo = <<>>
    /\ cli_k' = cli_k + 1
    /\ cli_pc' = "for"
    /\ UNCHANGED <<cli_files, cli_staged_only, cli_accept_all, cli_dry_run, cli_openapi_path,
                   cli_postman_path, cli_proposals, cli_all_decisions, cli_openapi_updated,
                   cli_postman_updated, cli_endpoint_todo,
                   env_vars, dlg_vars, engine_vars, py_vars, file_vars, ts_vars, doc_vars>>

\* lines 130-138: after the loop a run in staged mode stages the files with
\* an accepted proposal, when the repository root is found
CliFinish ==
    /\ cli_pc = "for"
    /\ cli_k > Len(cli_files)
    /\ \E repo_root \in BOOLEAN :
           IF /\ ~cli_dry_run
              /\ cli_staged_only
              /\ Modified(cli_all_decisions) # <<>>
              /\ repo_root
           THEN env_staged' = Append(env_staged, Modified(cli_all_decisions))
           ELSE UNCHANGED env_staged
    /\ cli_pc' = "done"
    /\ UNCHANGED <<cli_files, cli_staged_only, cli_accept_all, cli_dry_run, cli_openapi_path,
                   cli_postman_path, cli_k, cli_proposals, cli_all_decisions,
                   cli_openapi_updated, cli_postman_updated, cli_endpoint_todo,
                   env_analyzed, env_listed, env_writes, env_openapi_calls, env_postman_calls,
                   dlg_vars, engine_vars, py_vars, file_vars, ts_vars, doc_vars>>

NextCli ==
    \/ CliBegin \/ CliAnalyze \/ CliDryRun \/ CliShow \/ CliDecision
    \/ CliEndpoint \/ CliEndpointsDone \/ CliFinish
    \/ NextDialogue

SpecCli == InitCli /\ [][NextCli]_vars

\* ------------------------------------------------------------------------
\* update_operation (annotator/api_docs/openapi.py), call after call on one
\* file.  A dict is a function on its keys; a path is a sequence of atoms.
\* ------------------------------------------------------------------------
MaxUpdates == 3

\* {}
EmptyDict == <<>>

\* d.get(key, default)
DictGet(d, key, default) == IF key \in DOMAIN d THEN d[key] ELSE default

\* d[key] = value
DictPut(d, key, value) ==
    [k \in DOMAIN d \cup {key} |-> IF k = key THEN value ELSE d[k]]

\* (mutation of DictMerge: the new operation replaces the existing one)
DictReplace(existing, operation) == operation

\* {**existing, **operation}
DictMerge(existing, operation) ==
    [k \in DOMAIN existing \cup DOMAIN operation |->
        IF k \in DOMAIN operation THEN operation[k] ELSE existing[k]]

\* lines 83-96: the spec after the update
UpdateOperation(data, http_method, endpoint_path, operation) ==
    LET with_paths == IF "paths" \in DOMAIN data THEN data ELSE DictPut(data, "paths", EmptyDict)
        path_key == IF endpoint_path # <<>> /\ Head(endpoint_path) = "/"
                    THEN endpoint_path ELSE <<"/">> \o endpoint_path
        method_key == Lower(http_method)
        paths == IF path_key \in DOMAIN with_paths["paths"]
                 THEN with_paths["paths"]
                 ELSE DictPut(with_paths["paths"], path_key, EmptyDict)
        existing == DictGet(paths[path_key], method_key, EmptyDict)
        merged == DictMerge(existing, operation)
    IN DictPut(with_paths, "paths",
               DictPut(paths, path_key, DictPut(paths[path_key], method_key, merged)))

\* the specs the file holds at first: without paths, with no path, with one
\* path that has two operations
OaSpecs ==
    LET info == [k \in {"info"} |-> "Test API"]
        users == [k \in {"get", "post"} |->
                     IF k = "get" THEN [j \in {"summary", "deprecated"} |-> "old"]
                     ELSE [j \in {"summary"} |-> "old"]]
    IN { info,
         DictPut(info, "paths", EmptyDict),
         DictPut(info, "paths", [p \in {<<"/", "users">>} |-> users]) }

OaMethods == {"GET", "post"}

OaPaths == { <<"/", "users">>, <<"items">>, <<"/", "items">> }

OaOperations ==
    { EmptyDict,
      [k \in {"summary"} |-> "new"],
      [k \in {"description"} |-> "new"],
      [k \in {"summary", "description"} |-> "newer"] }

InitOpenapi ==
    /\ EngineIdle /\ PyIdle /\ FileIdle /\ TsIdle /\ RunIdle /\ PmIdle
    /\ oa_data \in OaSpecs
    /\ oa_call = <<>>
    /\ oa_n = 0

\* lines 81-99: load, update, save
OaUpdate ==
    /\ oa_n < MaxUpdates
    /\ oa_data # <<>>
    /\ \E http_method \in OaMethods, endpoint_path \in OaPaths, operation \in OaOperations :
           /\ oa_call' = [http_method |-> http_method, endpoint_path |-> endpoint_path,
                          operation |-> operation]
           /\ oa_data' = UpdateOperation(oa_data, http_method, endpoint_path, operation)
    /\ oa_n' = oa_n + 1
    /\ UNCHANGED <<engine_vars, py_vars, file_vars, ts_vars, run_vars, pm_vars>>

NextOpenapi == OaUpdate

SpecOpenapi == InitOpenapi /\ [][NextOpenapi]_vars

\* ------------------------------------------------------------------------
\* update_request (annotator/api_docs/postman.py), call after call on one
\* file.  A dict is a function on its keys; a URL is a sequence of atoms.
\* ------------------------------------------------------------------------
MaxRequests == 3

\* sub in s, for two strings
IsInfix(sub, s) ==
    \E i \in 0..(Len(s) - Len(sub)) : SubSeq(s, i + 1, i + Len(sub)) = sub

\* lines 51-58: the method and the raw URL of a request
RequestMethod(req) == Upper(DictGet(req, "method", ""))

RequestRawUrl(req) ==
    LET url == DictGet(req, "url", EmptyDict)
    IN IF "raw" \in DOMAIN url THEN url["raw"] ELSE <<>>

\* line 59: url_path in raw_url
UrlMatches(url_path, raw_url) == IsInfix(url_path, raw_url)

\* _find_item: the place of the item that is returned, as the indexes that
\* lead to it through the folders, <<>> for None
RECURSIVE FindItem(_, _, _)
FindItem(items, method, url_path) ==
    IF items = <<>> THEN <<>>
    ELSE LET item == Head(items)
             inner == IF "item" \in DOMAIN item
                      THEN FindItem(item["item"], method, url_path) ELSE <<>>
             rest == FindItem(Tail(items), method, url_path)
         IN IF inner # <<>> THEN <<1>> \o inner
            ELSE IF /\ "request" \in DOMAIN item
                    /\ RequestMethod(item["request"]) = Upper(method)
                    /\ UrlMatches(url_path, RequestRawUrl(item["request"]))
            THEN <<1>>
            ELSE IF rest = <<>> THEN <<>>
            ELSE <<rest[1] + 1>> \o Tail(rest)

\* the item at a place
RECURSIVE ItemAt(_, _)
ItemAt(items, place) ==
    IF Len(place) = 1 THEN items[place[1]]
    ELSE ItemAt(items[place[1]]["item"], Tail(place))

\* the items with the item at a place replaced
RECURSIVE SetItemAt(_, _, _)
SetItemAt(items, place, item) ==
    IF Len(place) = 1 THEN [items EXCEPT ![place[1]] = item]
    ELSE [items EXCEPT ![place[1]] =
             DictPut(@, "item", SetItemAt(@["item"], Tail(place), item))]

\* path.split("/") without the empty segments
PathSegments(path) == SelectSeq(path, LAMBDA a : a # "/")

\* _build_postman_item
BuildPostmanItem(name, method, path, description) ==
    [name |-> name,
     request |-> [method |-> Upper(method),
                  header |-> <<>>,
                  url |-> [raw |-> <<"{{base_url}}">> \o path,
                           host |-> <<"{{base_url}}">>,
                           path |-> PathSegments(path)],
                  description |-> IF description = "None" THEN "" ELSE description],
     response |-> <<>>]

\* lines 110-126: the collection after the call; a postman_item of None is
\* the empty dict, which the code treats alike, and the id uuid4 gives is
\* written "uuid4"
UpdateRequest(data, name, http_method, endpoint_path, postman_item, description) ==
    LET items == DictGet(data, "item", <<>>)
        place == FindItem(items, http_method, endpoint_path)
    IN IF place # <<>>
       THEN LET existing == ItemAt(items, place)
                described == IF description # "None" /\ "request" \in DOMAIN existing
                             THEN DictPut(existing, "request",
                                          DictPut(existing["request"], "description", description))
                             ELSE existing
                updated == IF postman_item # EmptyDict THEN DictMerge(described, postman_item)
                           ELSE described
            IN IF "item" \in DOMAIN data
               THEN DictPut(data, "item", SetItemAt(items, place, updated))
               ELSE data
       ELSE LET built == IF postman_item # EmptyDict THEN postman_item
                         ELSE BuildPostmanItem(name, http_method, endpoint_path, description)
                new_item == IF "id" \in DOMAIN built THEN built ELSE DictPut(built, "id", "uuid4")
            IN DictPut(data, "item", Append(items, new_item))

\* the collections the file holds at first: without items, and with a folder
\* that holds a request
PmCollections ==
    LET info == [k \in {"info"} |-> "Test API"]
        folder == [name |-> "Folder",
                   item |-> <<BuildPostmanItem("Old", "GET", <<"/", "items">>, "None")>>]
    IN { DictPut(info, "item", <<>>),
         DictPut(info, "item", <<folder>>) }

PmNames == {"List Users", "Get User"}

PmMethods == {"GET", "post"}

PmPaths == { <<"/", "users">>, <<"/", "users", "/", "{id}">>, <<"/", "items">> }

\* a full item of the caller's
PmCustomItem ==
    [name |-> "Custom",
     request |-> [method |-> "PUT", url |-> [raw |-> <<"{{base_url}}", "/", "items", "/", "1">>]],
     response |-> <<>>]

InitPostman ==
    /\ EngineIdle /\ PyIdle /\ FileIdle /\ TsIdle /\ RunIdle /\ OaIdle
    /\ pm_data \in PmCollections
    /\ pm_start = pm_data
    /\ pm_calls = <<>>

\* lines 109-129: load, add or update, save
PmUpdate ==
    /\ pm_data # <<>>
    /\ Len(pm_calls) < MaxRequests
    /\ \E name \in PmNames, http_method \in PmMethods, endpoint_path \in PmPaths,
          postman_item \in {EmptyDict, PmCustomItem}, description \in {"None", "Text"} :
           /\ pm_calls' = Append(pm_calls, [name |-> name, http_method |-> http_method,
                                            endpoint_path |-> endpoint_path,
                                            postman_item |-> postman_item,
                                            description |-> description])
           /\ pm_data' = UpdateRequest(pm_data, name, http_method, endpoint_path,
                                       postman_item, description)
    /\ UNCHANGED <<pm_start, engine_vars, py_vars, file_vars, ts_vars, run_vars, oa_vars>>

NextPostman == PmUpdate

SpecPostman == InitPostman /\ [][NextPostman]_vars
\* ------------------------------------------------------------------------
\* Properties of the insertion engine
\* ------------------------------------------------------------------------
DistinctLines(ps) == \A i, j \in 1..Len(ps) : i # j => ps[i].line # ps[j].line

\* the anchor of p, as a 0-based index, addresses one of n lines
InRange(p, n) == p.line - 1 >= 0 /\ p.line - 1 < n

\* s occurs in t at offset k
IsSubAt(t, s, k) == k + Len(s) <= Len(t) /\ SubSeq(t, k + 1, k + Len(s)) = s

\* a is a subsequence of b (the elements of a occur in b in the same order)
RECURSIVE IsSubseq(_, _)
IsSubseq(a, b) ==
    IF a = <<>> THEN TRUE
    ELSE IF b = <<>> THEN FALSE
    ELSE IF Head(a) = Head(b) THEN IsSubseq(Tail(a), Tail(b))
    ELSE IsSubseq(a, Tail(b))

\* all orderings of a list
RECURSIVE Perms(_)
Perms(ps) ==
    IF ps = <<>> THEN {<<>>}
    ELSE UNION { {ListInsert(q, i, Head(ps)) : i \in 0..Len(q)} : q \in Perms(Tail(ps)) }

\* applying the proposals one per call, each call on the text the previous returned
RECURSIVE Sequential(_, _, _)
Sequential(src, ps, lang) ==
    IF ps = <<>> THEN src
    ELSE Sequential(ApplyProposalsToSource(src, <<Head(ps)>>, lang), Tail(ps), lang)

\* C1: the returned text is the same for every permutation of the proposal list
C1_OrderInvariance ==
    pc = "done" =>
        \A q \in Perms(proposals) : ApplyProposalsToSource(source, q, language) = result

\* C2: with proposals at pairwise distinct lines, every line of the source is a
\* line of the output, verbatim and on its own, in the original order
C2_NoLineDrift ==
    (pc = "done" /\ DistinctLines(proposals)) =>
        IsSubseq(SplitLines(source), SplitLines(result))

\* C3: two or more proposals at distinct lines applied in one call give the text
\* of applying them one per call in descending line order.  Stated for in-range
\* anchors and a source whose last line ends in a newline, the case in which
\* neither an appended block nor a joined last line plays a part.
C3_BatchEqualsSequential ==
    (pc = "done" /\ Len(proposals) >= 2 /\ DistinctLines(proposals)
        /\ EndsWith(source, NL)
        /\ \A i \in 1..Len(proposals) : InRange(proposals[i], Len(SplitKeep(source)))) =>
        result = Sequential(source, SortedProps(proposals), language)

\* the proposals of ps whose anchor addresses a line of the source
RECURSIVE InRangeOnly(_, _)
InRangeOnly(ps, n) ==
    IF ps = <<>> THEN <<>>
    ELSE IF InRange(Head(ps), n) THEN <<Head(ps)>> \o InRangeOnly(Tail(ps), n)
    ELSE InRangeOnly(Tail(ps), n)

\* C4: a proposal whose 0-based anchor is negative or >= the number of lines
\* contributes nothing: the output is that of the in-range proposals alone
C4_OutOfRangeSkipped ==
    pc = "done" =>
        result = ApplyProposalsToSource(
                     source, InRangeOnly(proposals, Len(SplitKeep(source))), language)

\* number of "(" minus number of ")" in s
RECURSIVE ParenDepth(_)
ParenDepth(s) ==
    IF s = <<>> THEN 0
    ELSE ParenDepth(Tail(s)) + (IF Head(s) = "(" THEN 1 ELSE IF Head(s) = ")" THEN -1 ELSE 0)

\* the signature that starts on line a (1-based) is still open after line b:
\* a parenthesis is unclosed, or the line ends with a separator
SignatureOpen(ls, a, b) ==
    \/ ParenDepth(Join(SubSeq(ls, a, b))) > 0
    \/ EndsWith(Rstrip(ls[b]), ",")

\* the number of lines up to and including the last line of the signature
\* that starts on line a
RECURSIVE SignatureEnd(_, _, _)
SignatureEnd(ls, a, b) ==
    IF b < Len(ls) /\ SignatureOpen(ls, a, b) THEN SignatureEnd(ls, a, b + 1) ELSE b

\* C5: python, one proposal with an in-range anchor: the block is inserted
\* after the last line of the signature that starts on the anchor line
C5_PythonInsertionPoint ==
    (pc = "done" /\ language = "python" /\ Len(proposals) = 1
        /\ InRange(proposals[1], Len(SplitKeep(source)))) =>
        LET orig == SplitKeep(source)
            p == proposals[1]
        IN result = Join(ListInsert(orig, SignatureEnd(orig, p.line, p.line),
                                    DocBlock(orig, p, "python")))

RECURSIVE LeadingWs(_)
LeadingWs(s) ==
    IF s # <<>> /\ Head(s) \in {" ", "\t"} THEN <<Head(s)>> \o LeadingWs(Tail(s)) ELSE <<>>

\* C8: one proposal with an in-range anchor: the inserted block is the doc with
\* every non-blank line prefixed by the anchor line's own leading whitespace
\* (plus 4 spaces for python) and every blank line left as it is
C8_Indentation ==
    (pc = "done" /\ Len(proposals) = 1 /\ InRange(proposals[1], Len(SplitKeep(source)))) =>
        LET orig == SplitKeep(source)
            p == proposals[1]
            prefix == LeadingWs(orig[p.line])
                          \o (IF language = "python" THEN Spaces(4) ELSE <<>>)
        IN result = Join(ListInsert(orig, InsertIndex(orig, p, language),
                                    IndentDoc(NormDoc(p.proposed_doc), prefix)))


\* C27: with proposals at pairwise distinct lines, the proposals still to be
\* processed are in descending line order, and the element at the anchor
\* index of the proposal processed next is the line of the original source
\* with that number: no insertion made before has shifted or replaced it.
C27_AnchorStability ==
    (pc = "loop" /\ sorted_props # <<>> /\ DistinctLines(proposals)) =>
        LET insert_at == Head(sorted_props).line - 1
            original == SplitKeep(source)
        IN /\ \A i, j \in 1..Len(sorted_props) :
                  i < j => sorted_props[i].line > sorted_props[j].line
           /\ (insert_at >= 0 /\ insert_at < Len(original)) =>
                  lines[insert_at + 1] = original[insert_at + 1]
           /\ insert_at >= Len(original) => insert_at >= Len(lines)

\* a block has been inserted and a proposal with an anchor in range is next
C27_Witness ==
    /\ pc = "loop"
    /\ DistinctLines(proposals)
    /\ sorted_props # <<>>
    /\ Len(lines) > Len(SplitKeep(source))
    /\ Head(sorted_props).line - 1 \in 0..(Len(SplitKeep(source)) - 1)

\* the text ends with exactly one newline
EndsWithOneNewline(b) ==
    /\ b # <<>> /\ b[Len(b)] = NL
    /\ Len(b) >= 2 => b[Len(b) - 1] # NL

\* C28: the block that an iteration inserts ends with exactly one newline,
\* whether the proposed doc text ends with no newline, with one or with
\* several, so that the line after the block starts on a line of its own.
C28_BlockEndsWithOneNewline ==
    [][(pc = "loop" /\ Len(lines') = Len(lines) + 1) =>
           \E k \in 1..Len(lines') :
               /\ lines' = SubSeq(lines, 1, k - 1) \o <<lines'[k]>> \o SubSeq(lines, k, Len(lines))
               /\ EndsWithOneNewline(lines'[k])]_vars

\* a doc text that ends with two newlines has been inserted
C28_Witness ==
    /\ pc = "done"
    /\ Len(proposals) = 1
    /\ Len(proposals[1].proposed_doc) >= 2
    /\ proposals[1].proposed_doc[Len(proposals[1].proposed_doc)] = NL
    /\ proposals[1].proposed_doc[Len(proposals[1].proposed_doc) - 1] = NL
    /\ Len(lines) = Len(SplitKeep(source)) + 1
\* ------------------------------------------------------------------------
\* Properties of the Python analyzer
\* ------------------------------------------------------------------------

\* C9: for a source that does not parse, and for the empty source, analyze
\* returns the empty list and raises nothing
C9_FailSoft ==
    /\ py_pc # "raised"
    /\ (py_pc = "returned" /\ (~AstParse(py_content).ok \/ py_content = <<>>)) =>
           py_symbols = <<>>

C9_Witness ==
    /\ py_pc = "returned"
    /\ py_content # <<>>
    /\ ~AstParse(py_content).ok
    /\ py_symbols = <<>>

\* a node and the nodes nested in it, at any depth
RECURSIVE Descendants(_)
Descendants(node) ==
    {node} \cup UNION {Descendants(node.body[i]) : i \in 1..Len(node.body)}

\* a definition the analyzer is to report: a function or async function whose
\* first body statement is no string literal and whose name is __init__ or
\* does not start with two underscores
Reportable(node) ==
    /\ node.type \in {"FunctionDef", "AsyncFunctionDef"}
    /\ ~(node.body[1].type = "Expr" /\ node.body[1].value = "str")
    /\ \/ node.name = "__init__"
       \/ Len(NameChars(node.name)) < 2
       \/ NameChars(node.name)[1] # "_"
       \/ NameChars(node.name)[2] # "_"

\* C10: for a parseable source the returned symbols are, one each, the
\* reportable definitions of the tree, at any nesting depth
C10_DetectionSet ==
    (py_pc = "returned" /\ AstParse(py_content).ok) =>
        LET defs == {n \in Descendants(AstParse(py_content).tree) : Reportable(n)}
        IN /\ Len(py_symbols) = Cardinality(defs)
           /\ {<<py_symbols[i].name, py_symbols[i].line>> : i \in 1..Len(py_symbols)}
                  = {<<n.name, n.lineno>> : n \in defs}

\* a nested definition is reported and a dunder method is left out
C10_Witness ==
    /\ py_pc = "returned"
    /\ AstParse(py_content).ok
    /\ \E i \in 1..Len(py_symbols) : py_symbols[i].line > 1 /\ py_symbols[i].name = "__init__"
    /\ \E n \in Descendants(AstParse(py_content).tree) : n.name = "__str__"


\* ------------------------------------------------------------------------
\* Properties of the pipeline
\* ------------------------------------------------------------------------

\* C7: once a well-formed doc block has been applied for every symbol that
\* analyze returned for a file, analyze on the rewritten file returns none of
\* those symbols
C7_DocPresenceIdempotent ==
    file_pc = "reanalyzed" =>
        \A i \in 1..Len(file_symbols) : \A j \in 1..Len(file_again) :
            file_again[j].name # file_symbols[i].name

\* ------------------------------------------------------------------------
\* Properties of the analyzers' symbols
\* ------------------------------------------------------------------------

\* endpoint_method and endpoint_path of a symbol are both set or both None,
\* and set exactly when the symbol's type is endpoint; none is the value that
\* stands for a path of None in the symbol's analyzer
EndpointFieldsAgree(s, none) ==
    /\ (s.endpoint_method # "None") <=> (s.endpoint_path # none)
    /\ (s.endpoint_method # "None") <=> (s.type = "endpoint")
    /\ s.type \in {"function", "endpoint"}

\* C11: in every symbol of either analyzer, synthetic endpoint symbols
\* included, endpoint_method and endpoint_path are both set or both None, and
\* both are set exactly when the type is endpoint
C11_EndpointFields ==
    /\ \A i \in 1..Len(py_symbols) : EndpointFieldsAgree(py_symbols[i], "None")
    /\ \A i \in 1..Len(ts_symbols) : EndpointFieldsAgree(ts_symbols[i], <<>>)

\* a returned list with a plain function and a synthetic endpoint
C11_Witness ==
    /\ ts_pc = "returned"
    /\ \E i, j \in 1..Len(ts_symbols) :
          /\ ts_symbols[i].type = "function" /\ ts_symbols[i].endpoint_path = <<>>
          /\ ts_symbols[j].type = "endpoint" /\ ts_symbols[j].name[1] = "get"
          /\ ts_symbols[j].endpoint_method = "GET"

\* a path that starts with exactly one slash, holds no double slash and
\* ends in no slash unless it is the root
NormalPath(p) ==
    /\ p # <<>> /\ p[1] = "/"
    /\ \A j \in 1..(Len(p) - 1) : ~(p[j] = "/" /\ p[j + 1] = "/")
    /\ p[Len(p)] = "/" => p = <<"/">>

\* C12: whatever the controller base path and the method decorator's path
\* are (empty, with or without leading and trailing slashes), the full path
\* of a decorator-style endpoint starts with exactly one slash, holds no
\* double slash and has no trailing slash unless it is the root; base "/api/"
\* with method path "users" gives "/api/users".
C12_PathNormalization ==
    /\ \A i \in 1..Len(ts_nestjs_endpoints) : NormalPath(ts_nestjs_endpoints[i].value.path)
    /\ FullPath(<<"/", "api", "/">>, <<"users">>) = <<"/", "api", "/", "users">>

\* the definition that a symbol of the Python analyzer was made from
DefinitionOf(s) ==
    CHOOSE n \in Descendants(AstParse(py_content).tree) :
        n.type \in {"FunctionDef", "AsyncFunctionDef"} /\ n.lineno = s.line

\* a decorator call receiver.verb("path", ...) with a receiver of the
\* whitelist and a known HTTP method name
VerbStyle(d) ==
    /\ d.is_call /\ d.is_attribute
    /\ d.receiver \in {"app", "router", "api"}
    /\ Upper(d.attr) \in {"GET", "POST", "PUT", "DELETE", "PATCH", "HEAD", "OPTIONS"}
    /\ d.args # <<>> /\ d.args[1].const

\* a decorator call receiver.route(...)
RouteCall(d) == d.is_call /\ d.is_attribute /\ Upper(d.attr) = "ROUTE"

\* C13: a definition without route decorators is an endpoint exactly when one
\* of its decorators is a call receiver.verb("path", ...) with receiver one of
\* app, router, api and verb a known HTTP method name; method and path are
\* then the uppercased verb and the first positional string argument. A verb
\* call on another receiver does not make an endpoint.
C13_VerbStyleEndpoint ==
    (py_pc = "returned" /\ AstParse(py_content).ok) =>
        \A i \in 1..Len(py_symbols) :
            LET s == py_symbols[i]
                ds == DefinitionOf(s).decorator_list
                verbs == {k \in 1..Len(ds) : VerbStyle(ds[k])}
            IN (\A k \in 1..Len(ds) : ~RouteCall(ds[k])) =>
                   /\ s.type = "endpoint" <=> verbs # {}
                   /\ verbs # {} =>
                          \E k \in verbs :
                              /\ s.endpoint_method = Upper(ds[k].attr)
                              /\ s.endpoint_path = ds[k].args[1].value

\* a route decorator with an explicit path
RouteStyle(d) == RouteCall(d) /\ d.args # <<>> /\ d.args[1].const

\* the keyword arguments of a decorator that are named methods
MethodsKeywords(d) == SelectSeq(d.keywords, LAMBDA kw : kw.arg = "methods")

\* the string literals of a list, in order
StringsOf(elts) == SelectSeq(elts, LAMBDA e : e.const)

\* C14: the first endpoint decorator of a definition, in decorator-list
\* order, alone gives the symbol's method and path; when it is a route
\* decorator with an explicit path the method is the uppercased first method
\* string of its methods list, and GET when it has no methods keyword.
C14_RouteStyleEndpoint ==
    (py_pc = "returned" /\ AstParse(py_content).ok) =>
        \A i \in 1..Len(py_symbols) :
            LET s == py_symbols[i]
                ds == DefinitionOf(s).decorator_list
                eps == {k \in 1..Len(ds) : VerbStyle(ds[k]) \/ RouteStyle(ds[k])}
                first == CHOOSE k \in eps : \A j \in eps : k <= j
                kws == MethodsKeywords(ds[first])
            IN eps # {} =>
                   /\ s.endpoint_path = ds[first].args[1].value
                   /\ VerbStyle(ds[first]) => s.endpoint_method = Upper(ds[first].attr)
                   /\ RouteStyle(ds[first]) /\ kws = <<>> => s.endpoint_method = "GET"
                   /\ (RouteStyle(ds[first]) /\ kws # <<>> /\ kws[1].is_list
                          /\ StringsOf(kws[1].elts) # <<>>) =>
                              s.endpoint_method = Upper(StringsOf(kws[1].elts)[1].value)

\* C15: the list that TypeScriptAnalyzer.analyze returns has strictly
\* increasing line numbers: it is sorted by line and no two symbols, function
\* symbols and synthetic endpoint symbols together, share a line.
C15_TsStrictLineOrder ==
    ts_pc = "returned" =>
        \A i, j \in 1..Len(ts_symbols) : i < j => ts_symbols[i].line < ts_symbols[j].line

\* a synthetic endpoint is returned in front of a function symbol that was
\* appended before it
C15_Witness ==
    /\ ts_pc = "returned"
    /\ \E i, j \in 1..Len(ts_symbols) :
          /\ i < j
          /\ Len(ts_symbols[i].name) > 1
          /\ Len(ts_symbols[j].name) = 1

\* C16: the list that PythonAnalyzer.analyze returns is in source order,
\* ascending by definition line, for every source that parses, also when
\* module-level functions are mixed with class-scoped or nested definitions.
C16_PySourceOrder ==
    (py_pc = "returned" /\ AstParse(py_content).ok) =>
        \A i, j \in 1..Len(py_symbols) : i < j => py_symbols[i].line < py_symbols[j].line

\* the positions of the text at which a line starts
LineStarts(s) == {i \in 1..Len(s) : i = 1 \/ s[i - 1] = NL}

\* one of the three function forms read from position i
FormAt(s, i) ==
    IF FuncPattern1(s, i).ok THEN FuncPattern1(s, i)
    ELSE IF FuncPattern2(s, i).ok THEN FuncPattern2(s, i)
    ELSE FuncPattern3(s, i)

\* a function starts at the line start i: a form is read from i and i does
\* not lie inside a form that began on an earlier line
FunctionStartsAt(s, i) ==
    /\ FormAt(s, i).ok
    /\ \A j \in LineStarts(s) : (j < i /\ FormAt(s, j).ok) => FormAt(s, j).end < i

\* the number of newlines in front of position i
NewlinesBefore(s, i) == Cardinality({j \in 1..(i - 1) : s[j] = NL})

\* C17: every undocumented function that starts a line in one of the three
\* forms, with a name that does not begin with an underscore, yields exactly
\* one symbol, of that name and of line = number of preceding newlines + 1;
\* no returned name begins with an underscore.
C17_FunctionDetection ==
    ts_pc = "returned" =>
        /\ \A i \in LineStarts(ts_content) :
              LET name == FormAt(ts_content, i).g1
                  n == NewlinesBefore(ts_content, i)
              IN (/\ FunctionStartsAt(ts_content, i)
                  /\ ~StartsWith(NameChars(name), <<"_">>)
                  /\ ~HasJsdocBefore(SplitLines(ts_content), n)) =>
                     /\ Cardinality({k \in 1..Len(ts_symbols) : ts_symbols[k].line = n + 1}) = 1
                     /\ \E k \in 1..Len(ts_symbols) :
                            ts_symbols[k].line = n + 1 /\ ts_symbols[k].name = <<name>>
        /\ \A k \in 1..Len(ts_symbols) :
              \* the name of a synthetic endpoint starts with its method
              Len(ts_symbols[k].name) = 1 =>
                  ~StartsWith(NameChars(ts_symbols[k].name[1]), <<"_">>)

\* a function whose form runs over two lines is returned at the line of its
\* first word, below a function with an underscore name that is not returned
C17_Witness ==
    /\ ts_pc = "returned"
    /\ \E i, j \in LineStarts(ts_content) :
          /\ j < i
          /\ FunctionStartsAt(ts_content, j) /\ FormAt(ts_content, j).g1 = "_h"
          /\ FunctionStartsAt(ts_content, i)
          /\ NewlinesBefore(ts_content, FormAt(ts_content, i).end)
                > NewlinesBefore(ts_content, i)
          /\ \E k \in 1..Len(ts_symbols) :
                ts_symbols[k].line = NewlinesBefore(ts_content, i) + 1

\* the up-to-20 lines in front of the 0-based line n, joined
DocWindow(s, n) ==
    JoinNL(SubSeq(SplitLines(s), Max(0, n - JsdocWindow) + 1, n))

\* the window holds a block opened by /** and closed by */, wherever the
\* closing token stands
DocAnywhere(s, n) ==
    LET w == DocWindow(s, n)
    IN n # 0 /\ \E p, q \in 1..Len(w) : p < q /\ w[p] = "/**" /\ w[q] = "*/"

\* the window holds a block opened by /** and closed by */ and nothing but
\* whitespace stands between the closing token and the candidate's line
DocAdjacent(s, n) ==
    LET w == DocWindow(s, n)
    IN n # 0 /\ \E p, q \in 1..Len(w) :
                   /\ p < q /\ w[p] = "/**" /\ w[q] = "*/"
                   /\ \A r \in (q + 1)..Len(w) : w[r] \in Whitespace

\* the 0-based lines of the candidates: the functions without a leading
\* underscore and the call-style matches on lines where no function starts
FunctionLines(s) == {NewlinesBefore(s, i) : i \in {j \in LineStarts(s) : FunctionStartsAt(s, j)}}

CandidateLines(s) ==
    {NewlinesBefore(s, i) : i \in {j \in LineStarts(s) :
         FunctionStartsAt(s, j) /\ ~StartsWith(NameChars(FormAt(s, j).g1), <<"_">>)}}
    \cup ({ts_express_endpoints[k].key : k \in 1..Len(ts_express_endpoints)}
              \ FunctionLines(s))

Returned(n) == \E k \in 1..Len(ts_symbols) : ts_symbols[k].line = n + 1

\* C18: a candidate on 0-based line i is left out as documented exactly when
\* the up-to-20 lines in front of it hold a doc block opened by /** and closed
\* by */, wherever in the window the closing token stands and whatever lies
\* between the block and the candidate; a candidate on the first line is
\* never documented.
C18_DocAnywhere ==
    ts_pc = "returned" =>
        \A n \in CandidateLines(ts_content) : ~Returned(n) <=> DocAnywhere(ts_content, n)

\* C18, amended: a candidate on 0-based line i is left out as documented
\* exactly when the up-to-20 lines in front of it hold a doc block opened by
\* /** and closed by */ with nothing but whitespace between the closing token
\* and the candidate's line; a candidate on the first line is never
\* documented.
C18_DocAdjacent ==
    ts_pc = "returned" =>
        \A n \in CandidateLines(ts_content) : ~Returned(n) <=> DocAdjacent(ts_content, n)

\* a function is returned although a doc block stands in its window, a line
\* of code lying between the two
C18_Witness ==
    /\ ts_pc = "returned"
    /\ \E n \in CandidateLines(ts_content) :
          /\ DocAnywhere(ts_content, n) /\ ~DocAdjacent(ts_content, n)
          /\ Returned(n)

\* a call-style match receiver.verb('path', ...) at position i, the receiver
\* being app, router or server
CallStyleAt(s, i) ==
    /\ ExpressRe(s, i).ok
    /\ Lower(At(s, i)) \in {"app", "router", "server"}

\* the call-style matches on the 0-based line n, the line before or the line
\* after it
CallStyleNear(s, n) ==
    {i \in 1..Len(s) : CallStyleAt(s, i) /\ Abs(NewlinesBefore(s, i) - n) <= 1}

\* C19: a function symbol on the line of a call-style match (receiver app,
\* router or server), the line before or the line after it, is an endpoint
\* with the uppercased method and the path of such a match, also when a
\* decorator window covers its line; a function symbol farther than one line
\* from every call-style match is not made an endpoint by call-style.
C19_CallStyleReclassification ==
    ts_pc = "returned" =>
        \A k \in 1..Len(ts_symbols) :
            LET sym == ts_symbols[k]
                near == CallStyleNear(ts_content, sym.line - 1)
            IN Len(sym.name) = 1 =>
                   /\ near # {} =>
                          /\ sym.type = "endpoint"
                          /\ \E i \in near :
                                 /\ sym.endpoint_method = Upper(ExpressRe(ts_content, i).g1)
                                 /\ sym.endpoint_path = ExpressRe(ts_content, i).g2
                   /\ near = {} =>
                          \/ sym.type = "function"
                          \/ \E d \in 1..Len(ts_nestjs_endpoints) :
                                 /\ ts_nestjs_endpoints[d].key = sym.line - 1
                                 /\ ts_nestjs_endpoints[d].value.method = sym.endpoint_method
                                 /\ ts_nestjs_endpoints[d].value.path = sym.endpoint_path

\* the method decorators that stand 1 to 5 lines above the 0-based line n
DecoratorsAbove(s, n) ==
    {j \in 1..Len(s) : /\ NestjsEndpointRe(s, j).ok
                       /\ n - NewlinesBefore(s, j) \in 1..5}

\* call-style claims the 0-based line n: the call-style expression matches
\* on the line, the line before or the line after it, in whatever word the
\* match lies
ClaimedByCallStyle(s, n) ==
    \E i \in 1..Len(s) : ExpressRe(s, i).ok /\ Abs(NewlinesBefore(s, i) - n) <= 1

CallStyleMatches(s) == {i \in 1..Len(s) : ExpressRe(s, i).ok}

\* the symbol is the synthetic endpoint of the call-style match at position i
SyntheticOf(sym, s, i) ==
    LET m == ExpressRe(s, i)
        under == [j \in 1..Len(m.g2) |-> IF m.g2[j] = "/" THEN "_" ELSE m.g2[j]]
    IN /\ sym.line = NewlinesBefore(s, i) + 1
       /\ sym.type = "endpoint"
       /\ sym.endpoint_method = Upper(m.g1)
       /\ sym.endpoint_path = m.g2
       /\ sym.name = <<Lower(m.g1), "_">> \o StripUnderscore(under)

\* C21: a call-style match yields a synthetic endpoint symbol exactly when no
\* function pattern matched on its line, emitted or not, and the line is not
\* documented; the symbol has type endpoint, the match's method and path, the
\* match's line and the name method_path, in lower case, slashes replaced by
\* underscores and the outer underscores trimmed.
C21_SyntheticEndpoints ==
    ts_pc = "returned" =>
        \A i \in CallStyleMatches(ts_content) :
            LET n == NewlinesBefore(ts_content, i)
            IN (n \notin FunctionLines(ts_content)
                    /\ ~HasJsdocBefore(SplitLines(ts_content), n))
               <=> \E k \in 1..Len(ts_symbols) : SyntheticOf(ts_symbols[k], ts_content, i)

\* the function symbol was made an endpoint by the call-style match at
\* position i: the match is the only one within one line of the symbol and
\* the symbol carries its method and path
ReclassifiedBy(sym, s, i) ==
    /\ Len(sym.name) = 1
    /\ sym.type = "endpoint"
    /\ \A j \in CallStyleMatches(s) :
           Abs(NewlinesBefore(s, j) - (sym.line - 1)) <= 1 <=> j = i
    /\ sym.endpoint_method = Upper(ExpressRe(s, i).g1)
    /\ sym.endpoint_path = ExpressRe(s, i).g2

\* C30: each call-style match gives rise to at most one returned endpoint
\* symbol: when a function symbol on an adjacent line was reclassified as the
\* endpoint of the match, no synthetic endpoint symbol is returned for the
\* same match.
C30_OneSymbolPerMatch ==
    ts_pc = "returned" =>
        \A i \in CallStyleMatches(ts_content) :
            Cardinality({k \in 1..Len(ts_symbols) :
                             \/ SyntheticOf(ts_symbols[k], ts_content, i)
                             \/ ReclassifiedBy(ts_symbols[k], ts_content, i)}) <= 1

\* ------------------------------------------------------------------------
\* Properties of the dialogue and of the run over the files
\* ------------------------------------------------------------------------
\* the identities of the proposals of a list, in the order of the list
IdsOf(ps) == [k \in 1..Len(ps) |-> ps[k].id]

Increasing(ns) == \A i, j \in 1..Len(ns) : i < j => ns[i] < ns[j]

Occurrences(ns, n) == Cardinality({k \in 1..Len(ns) : ns[k] = n})

\* the Decision that is returned: every proposal is in exactly one of the two
\* lists, and each list is in the order of the proposals
DecisionPartitions ==
    /\ \A k \in 1..Len(dlg_proposals) :
           Occurrences(IdsOf(dlg_accepted), dlg_proposals[k].id)
               + Occurrences(IdsOf(dlg_rejected), dlg_proposals[k].id) = 1
    /\ \A k \in 1..Len(dlg_accepted) : dlg_accepted[k] = dlg_proposals[dlg_accepted[k].id]
    /\ \A k \in 1..Len(dlg_rejected) : dlg_rejected[k] = dlg_proposals[dlg_rejected[k].id]
    /\ Increasing(IdsOf(dlg_accepted))
    /\ Increasing(IdsOf(dlg_rejected))

\* the step that handles the choice c
Handles(c) == dlg_pc = "asked" /\ dlg_choice = c /\ dlg_pc' # "asked"

\* C29: when every prompt that keeps coming back gets an answer other than
\* "s", show_file_proposals returns, with every proposal in exactly one of
\* accepted and rejected and each list in the proposals' order; choice "a"
\* accepts the current proposal and, from then on, nothing is prompted for and
\* nothing is rejected; choice "s" records no decision and prompts again for
\* the same proposal; with accept_all passed, nothing is ever prompted for and
\* everything is accepted.
C29_Dialogue ==
    /\ <>(dlg_pc = "returned")
    /\ [](dlg_pc = "returned" =>
             /\ DecisionPartitions
             /\ dlg_accept_all_arg => (dlg_accepted = dlg_proposals /\ dlg_prompted = {}))
    /\ [][/\ Handles("a") =>
                 /\ dlg_accepted' = Append(dlg_accepted, dlg_proposals[dlg_i])
                 /\ dlg_accept_all'
          /\ dlg_accept_all =>
                 /\ dlg_accept_all'
                 /\ dlg_prompted' = dlg_prompted
                 /\ dlg_rejected' = dlg_rejected
                 /\ dlg_pc' \notin {"prompt", "asked"}
          /\ Handles("s") =>
                 /\ dlg_pc' = "prompt"
                 /\ UNCHANGED <<dlg_i, dlg_accepted, dlg_rejected, dlg_accept_all>>]_vars

\* answered "a" at the first of two proposals: the second was never prompted for
C29_Witness ==
    /\ dlg_pc = "returned"
    /\ ~dlg_accept_all_arg
    /\ Len(dlg_proposals) = 2
    /\ dlg_prompted = {1}
    /\ Len(dlg_accepted) = 2

\* the decisions recorded for the file f
DecisionsOf(f) ==
    {k \in 1..Len(cli_all_decisions) : cli_all_decisions[k].file_path = f}

\* the file f is in the list fs
InList(fs, f) == \E k \in 1..Len(fs) : fs[k] = f

\* C22: in a dry run no source file is written, show_file_proposals is never
\* called (no proposal is offered for acceptance, no Decision exists), no
\* OpenAPI and no Postman update is made and no file is staged, whatever the
\* files and whatever their analysis gives.
C22_DryRunSafety ==
    cli_dry_run =>
        /\ \A f \in FilePaths : env_writes[f] = <<>>
        /\ dlg_pc = "idle"
        /\ cli_all_decisions = <<>>
        /\ env_openapi_calls = <<>>
        /\ env_postman_calls = <<>>
        /\ cli_openapi_updated = <<>>
        /\ cli_postman_updated = <<>>
        /\ env_staged = <<>>

\* a dry run in staged mode is over, with both api documents present, and a
\* file had proposals
C22_Witness ==
    /\ cli_dry_run
    /\ cli_staged_only
    /\ cli_openapi_path # "None"
    /\ cli_postman_path # "None"
    /\ cli_pc = "done"
    /\ env_listed # <<>>

\* C23: the files are analysed one after the other, whatever the analysis of
\* an earlier one raised, so that every file has been analysed when the run
\* is over; a file whose analysis raised is skipped (no listing, no Decision,
\* no write); every file left behind with proposals was processed (listed in
\* a dry run, decided upon otherwise); and every file with an accepted
\* proposal keeps what was written to it.
C23_BatchRobustness ==
    cli_pc # "idle" =>
        /\ cli_pc # "raised"
        /\ Len(env_analyzed) <= Len(cli_files)
        /\ \A k \in 1..Len(env_analyzed) : env_analyzed[k].file_path = cli_files[k]
        /\ cli_pc = "done" => Len(env_analyzed) = Len(cli_files)
        /\ \A k \in 1..Len(env_analyzed) :
               LET f == cli_files[k] IN
               /\ env_analyzed[k].raised # "None" =>
                      /\ ~InList(env_listed, f)
                      /\ DecisionsOf(f) = {}
                      /\ env_writes[f] = <<>>
               /\ (env_analyzed[k].count > 0 /\ k < cli_k) =>
                      IF cli_dry_run THEN InList(env_listed, f) ELSE DecisionsOf(f) # {}
        /\ \A k \in 1..Len(cli_all_decisions) :
               cli_all_decisions[k].accepted # <<>> =>
                   env_writes[cli_all_decisions[k].file_path] = <<cli_all_decisions[k].accepted>>

\* the analysis of the first file raised, the second file was analysed all
\* the same and was written
C23_Witness ==
    /\ cli_pc = "done"
    /\ Len(cli_files) >= 2
    /\ env_analyzed[1].raised # "None"
    /\ env_writes[cli_files[2]] # <<>>

OperationAt(d, p, m) ==
    IF "paths" \in DOMAIN d /\ p \in DOMAIN d["paths"] /\ m \in DOMAIN d["paths"][p]
    THEN d["paths"][p][m] ELSE <<>>

\* the pairs of a path key and a method key that hold an operation in d
Slots(d) ==
    IF "paths" \in DOMAIN d
    THEN {s \in (DOMAIN d["paths"]) \X {"get", "post"} : s[2] \in DOMAIN d["paths"][s[1]]}
    ELSE {}

\* the path with one leading slash put before it when it has none
WithSlash(p) == IF p[1] = "/" THEN p ELSE <<"/">> \o p

\* C25: each call of update_operation stores, under the path with a leading
\* slash and the lowercased method, an operation that has every key of the
\* new operation with its new value and every other key of the existing
\* operation with its old value, and nothing else; every other operation, every
\* other path and every other top-level entry of the spec stays as it was.
C25_OpenapiMerge ==
    [][oa_n' = oa_n + 1 =>
          LET p == WithSlash(oa_call'.endpoint_path)
              m == IF oa_call'.http_method = "GET" THEN "get" ELSE oa_call'.http_method
              old == OperationAt(oa_data, p, m)
              new == OperationAt(oa_data', p, m)
              op == oa_call'.operation
          IN /\ <<p, m>> \in Slots(oa_data')
             /\ DOMAIN new = DOMAIN old \cup DOMAIN op
             /\ \A k \in DOMAIN op : new[k] = op[k]
             /\ \A k \in DOMAIN old \ DOMAIN op : new[k] = old[k]
             /\ Slots(oa_data') = Slots(oa_data) \cup {<<p, m>>}
             /\ \A s \in Slots(oa_data) \ {<<p, m>>} :
                    OperationAt(oa_data', s[1], s[2]) = OperationAt(oa_data, s[1], s[2])
             /\ "paths" \in DOMAIN oa_data =>
                    DOMAIN oa_data'["paths"] = DOMAIN oa_data["paths"] \cup {p}
             /\ DOMAIN oa_data' = DOMAIN oa_data \cup {"paths"}
             /\ \A k \in DOMAIN oa_data \ {"paths"} : oa_data'[k] = oa_data[k]]_vars

\* after two calls the operation of GET /users has a key it had at first, a
\* key of a call, and the path given without a slash is stored with one
C25_Witness ==
    /\ oa_n >= 2
    /\ oa_call.endpoint_path = <<"items">>
    /\ "paths" \in DOMAIN oa_data
    /\ <<"/", "items">> \in DOMAIN oa_data["paths"]
    /\ OperationAt(oa_data, <<"/", "users">>, "get") =
           [k \in {"summary", "deprecated", "description"} |->
               IF k = "deprecated" THEN "old" ELSE "newer"]

\* the calls so far build their item from the name, the method and the path,
\* for pairwise different pairs of a method and a path
DifferentPairs ==
    /\ \A k \in 1..Len(pm_calls) : pm_calls[k].postman_item = EmptyDict
    /\ \A i, j \in 1..Len(pm_calls) :
           i < j => \/ Upper(pm_calls[i].http_method) # Upper(pm_calls[j].http_method)
                    \/ pm_calls[i].endpoint_path # pm_calls[j].endpoint_path

\* C26: after update_request calls for k pairwise different pairs of a method
\* and a path on an empty collection, the collection holds k items, the i-th
\* with the name, the uppercased method and a raw URL containing the path of
\* the i-th call.
C26_PostmanAdd ==
    (pm_calls # <<>> /\ pm_start["item"] = <<>> /\ DifferentPairs) =>
        /\ Len(pm_data["item"]) = Len(pm_calls)
        /\ \A k \in 1..Len(pm_calls) :
               /\ pm_data["item"][k]["name"] = pm_calls[k].name
               /\ pm_data["item"][k]["request"]["method"] = Upper(pm_calls[k].http_method)
               /\ IsInfix(pm_calls[k].endpoint_path, pm_data["item"][k]["request"]["url"]["raw"])
====
